---- MODULE Spec2Model ----
(***************************************************************************)
(* Git Manager (Tauri + React front end): a model of                       *)
(*   - the unified-diff sectioniser of the commit-graph view               *)
(*     (parseDiffByFile, getDiffStats) and of the file-status view,        *)
(*   - the commit-graph layout (column / colour assignment),               *)
(*   - the BranchGraph component (graph fetch, commit-diff effect,         *)
(*     mutating context-menu operations),                                  *)
(*   - App (repository selection, fetchRepoInfo, the debounced             *)
(*     'git-changed' listener, handleInitRepo, the quick actions),         *)
(*   - QuickStatus (branch checkout), PublishToGitHub (handlePublish),     *)
(*   - useLocalReposStore (addRepo, removeRepo, selectRepo).               *)
(* Each part has its own specification over the shared variables; the      *)
(* parts a specification does not exercise stay switched off.              *)
(***************************************************************************)
EXTENDS Integers, Sequences, FiniteSets, TLC

VARIABLES
    \* ---- diff sectioniser (pure functions applied to an input text)
    srcLines,       \* the lines the input text was assembled from
    diffText,       \* the diff string handed to the component (characters)
    files,          \* result of parseDiffByFile(diffText)
    stats,          \* getDiffStats(file.lines) per file (commit-diff view)
    fileViewStats,  \* FileStatusView.getDiffStats(diffText)
    dphase,         \* "off" | "input" | "parsed" | "stats"
    \* ---- commit-graph layout (one forward pass over the commit list)
    commitList,     \* the input of the build in progress: [hash, parents]
    lanes,          \* lane state: slot i holds [hash, color], hash 0 = free
    nextColor,      \* the next fresh colour of the build in progress
    row,            \* number of rows already placed
    columns,        \* column of each placed row
    colors,         \* colour index of each placed row
    bphase,         \* "off" | "idle" | "building" | "built"
    refList,        \* the list that is built first and last
    otherList,      \* the list that is built in between
    buildNo,        \* number of builds started
    buildsLeft,     \* number of builds still to start
    firstResult,    \* <<>> or <<result of the first build>>
    \* ---- BranchGraph component (one mounted instance)
    gRepoPath,      \* prop repoPath
    gCommits,       \* state commits: "none" or the repository it was read from
    gLoading,       \* state loading
    gError,         \* state error # null
    graphReqs,      \* getGraphLog calls in flight, per repoPath
    selectedCommit, \* state selectedCommit: "none" or a hash
    commitDiff,     \* state commitDiff: <<>> ('') or <<path, hash>>
    diffLoading,    \* state diffLoading
    diffReqs,       \* getCommitDiff calls in flight, per <<path, hash>>
    ops,            \* mutating invoke() calls in flight: [kind, path]
    gToast,         \* the last toast shown: "none" | "success" | "error"
    gSettled,       \* how the last invoke() settled: "none" | "resolved" | "rejected"
    \* ---- App (selection, fetchRepoInfo, 'git-changed' listeners)
    selectedRepo,   \* "none" or the selected repository
    repoInfo,       \* state repoInfo: "none" (null) or the repository it is of
    loading,        \* state loading
    infoReqs,       \* getRepoInfo calls in flight, per repository path
    listeners,      \* runs of the debounce effect that can still act
    sinceLast,      \* ms since the last notification (capped at DebounceMs)
    burstOpen,      \* a notification arrived since the selection last changed
    burstFetches,   \* fetchRepoInfo calls the timers of the burst have made
    actionLoading,  \* state actionLoading: "none" (null) or the quick action in flight
    actionRepo,     \* selectedRepo of the render the quick action was started in
    aToast,         \* the last toast of handleGitAction: "none" | "success" | "error"
    aSettled,       \* how its last backend call settled: "none" | "resolved" | "rejected"
    message,        \* InlineCommit state message: "" or a typed text
    selectedPrefix, \* InlineCommit state selectedPrefix: "none" (null) or a prefix
    viewCommit,     \* selectedCommit of the BranchGraph that App renders
    viewBefore,     \* what these three held when the repository view was last replaced
                    \* by the loader with the selection unchanged, or <<>>
    initLoading,    \* state initLoading
    initClosure,    \* selectedRepo of the render handleInitRepo was started in
    initFolder,     \* the listed folder the last handleInitRepo initialized, or "none"
    initTimer,      \* ms left of the timer of handleInitRepo, or NoTimer
    initRefreshed,  \* the callback of that timer has run
    initDialogs,    \* open() calls of handleInitRepo in flight (folder dialogs)
    initCalls,      \* initRepo() calls of handleInitRepo in flight, per folder
    checkoutRepo,   \* selectedRepo of the render whose QuickStatus has a
                    \* checkoutBranch call in flight, or "none"
    \* ---- rendering (pure functions of what is rendered)
    numLines,       \* file.lines of the file section whose lines are rendered
    numbers,        \* the old / new line number shown for each rendered line
    nphase,         \* "off" | "input" | "rendered"
    rCommits,       \* the commits state that is drawn: [hash, parents, column, color]
    connectors,     \* result of renderConnections: [from, to, color]
    nodes,          \* result of renderNodes: [row, column, color]
    rphase,         \* "off" | "input" | "drawn"
    \* ---- PublishToGitHub (one mounted instance and its repository)
    pOpen,          \* state open
    pToken,         \* state token # null
    pLoading,       \* state loading
    step,           \* state step
    hasOrigin,      \* state hasOrigin
    tokenReqs,      \* getGitHubToken calls in flight
    remoteReqs,     \* getRemotes calls in flight
    repoOrigin,     \* the repository has a remote named 'origin'
    pubHasOrigin,   \* hasOrigin of the render handlePublish was started in
    pCall,          \* the call of handlePublish in flight, or "none"
    remoteName,     \* the name last handed to addRemote, or "none"
    \* ---- useLocalReposStore
    repos,          \* state repos: a list of [id, path]
    selectedRepoId, \* state selectedRepoId: 0 (null) or an id
    nextUuid        \* the ids crypto.randomUUID() has given so far

diffVars == <<srcLines, diffText, files, stats, fileViewStats, dphase>>

buildVars == <<commitList, lanes, nextColor, row, columns, colors, bphase,
               refList, otherList, buildNo, buildsLeft, firstResult>>

graphVars == <<gRepoPath, gCommits, gLoading, gError, graphReqs,
               selectedCommit, commitDiff, diffLoading, diffReqs, ops, gToast,
               gSettled>>

actVars == <<actionLoading, actionRepo, aToast, aSettled>>

viewVars == <<message, selectedPrefix, viewCommit, viewBefore>>

initVars == <<initLoading, initClosure, initFolder, initTimer, initRefreshed,
              initDialogs, initCalls>>

appVars == <<selectedRepo, repoInfo, loading, infoReqs, listeners,
             sinceLast, burstOpen, burstFetches, actVars, viewVars, initVars>>

renderVars == <<numLines, numbers, nphase, rCommits, connectors, nodes, rphase>>

quickVars == <<checkoutRepo>>

publishVars == <<pOpen, pToken, pLoading, step, hasOrigin, tokenReqs,
                 remoteReqs, repoOrigin, pubHasOrigin, pCall, remoteName>>

storeVars == <<repos, selectedRepoId, nextUuid>>

vars == <<diffVars, buildVars, graphVars, appVars, renderVars, quickVars,
          publishVars, storeVars>>

\* what a step of one part leaves alone
DiffFrame == UNCHANGED <<buildVars, graphVars, appVars, renderVars, quickVars,
                         publishVars, storeVars>>
BuildFrame == UNCHANGED <<diffVars, graphVars, appVars, renderVars, quickVars,
                          publishVars, storeVars>>
GraphFrame == UNCHANGED <<diffVars, buildVars, appVars, renderVars, quickVars,
                          publishVars, storeVars>>
AppFrame == UNCHANGED <<diffVars, buildVars, graphVars, renderVars, quickVars,
                        publishVars, storeVars>>
RenderFrame == UNCHANGED <<diffVars, buildVars, graphVars, appVars, quickVars,
                           publishVars, storeVars>>
QuickFrame == UNCHANGED <<diffVars, buildVars, graphVars, renderVars,
                          publishVars, storeVars>>
PublishFrame == UNCHANGED <<diffVars, buildVars, graphVars, appVars, renderVars,
                            quickVars, storeVars>>
StoreFrame == UNCHANGED <<diffVars, buildVars, graphVars, appVars, renderVars,
                          quickVars, publishVars>>

(***************************************************************************)
(* Strings.  A string is a sequence of one-character strings, so that      *)
(* startsWith, split and the regular expression act on characters.         *)
(***************************************************************************)
NL == "\n"

S_DIFF_GIT == <<"d","i","f","f"," ","-","-","g","i","t">>
S_DIFF_GIT_A == S_DIFF_GIT \o <<" ","a","/">>
S_B == <<" ","b","/">>
S_PLUS == <<"+">>
S_PLUS3 == <<"+","+","+">>
S_MINUS == <<"-">>
S_MINUS3 == <<"-","-","-">>
S_AT2 == <<"@","@">>

\* String.prototype.startsWith(prefix, at-1)
StartsWithAt(s, at, prefix) ==
    /\ at + Len(prefix) - 1 <= Len(s)
    /\ \A k \in 1..Len(prefix) : s[at + k - 1] = prefix[k]

StartsWith(s, prefix) == StartsWithAt(s, 1, prefix)

\* String.prototype.split('\n'): always at least one piece
RECURSIVE SplitFrom(_, _, _, _)
SplitFrom(s, i, cur, acc) ==
    IF i > Len(s) THEN Append(acc, cur)
    ELSE IF s[i] = NL THEN SplitFrom(s, i + 1, <<>>, Append(acc, cur))
    ELSE SplitFrom(s, i + 1, Append(cur, s[i]), acc)

SplitLines(s) == SplitFrom(s, 1, <<>>, <<>>)

\* Array.prototype.join('\n'), used to assemble the input texts
RECURSIVE JoinLines(_)
JoinLines(ls) ==
    IF Len(ls) = 0 THEN <<>>
    ELSE IF Len(ls) = 1 THEN ls[1]
    ELSE ls[1] \o <<NL>> \o JoinLines(Tail(ls))

(***************************************************************************)
(* parseDiffByFile                                                         *)
(***************************************************************************)
\* Variant: the boundary test done with includes() instead of startsWith()
IsBoundaryLine_Includes(line) ==
    \E at \in 1..Len(line) : StartsWithAt(line, at, S_DIFF_GIT)

\* line.startsWith('diff --git')
IsBoundaryLine(line) == StartsWith(line, S_DIFF_GIT)

\* line.match(/diff --git a\/(.*) b\/(.*)/): unanchored, both groups greedy,
\* so group 2 starts after the LAST ' b/' that follows a 'diff --git a/'.
\* The positions of such a ' b/' (empty set: no match).
MatchEnds(line) ==
    { j \in 1..Len(line) :
        /\ StartsWithAt(line, j, S_B)
        /\ \E i \in 1..j : /\ StartsWithAt(line, i, S_DIFF_GIT_A)
                           /\ i + Len(S_DIFF_GIT_A) <= j }

LastOf(S) == CHOOSE j \in S : \A k \in S : k <= j

\* const fileName = match ? match[2] : line
FileName(line) ==
    IF MatchEnds(line) = {} THEN line
    ELSE SubSeq(line, LastOf(MatchEnds(line)) + Len(S_B), Len(line))

\* if (currentFile) files.push(currentFile); return files
\* (cur is <<>> for null, <<file>> for a current file)
FinishFiles(acc, cur) == acc \o cur

RECURSIVE ParseLoop(_, _, _, _)
ParseLoop(lines, i, acc, cur) ==
    IF i > Len(lines) THEN FinishFiles(acc, cur)
    ELSE IF IsBoundaryLine(lines[i])
    THEN ParseLoop(lines, i + 1, acc \o cur,
                   << [name |-> FileName(lines[i]), lines |-> <<>>] >>)
    ELSE IF cur # <<>>
    THEN ParseLoop(lines, i + 1, acc,
                   << [cur[1] EXCEPT !.lines = Append(@, lines[i])] >>)
    ELSE ParseLoop(lines, i + 1, acc, cur)

\* Variant: currentFile starts as an unnamed file instead of null
parseDiffByFile_StartsInFile(diff) ==
    ParseLoop(SplitLines(diff), 1, <<>>, << [name |-> <<>>, lines |-> <<>>] >>)

parseDiffByFile(diff) == ParseLoop(SplitLines(diff), 1, <<>>, <<>>)

(***************************************************************************)
(* getDiffStats, in the commit-diff view (over file.lines) and in the      *)
(* file-status view (over diff.split('\n'))                                *)
(***************************************************************************)
CountAdded(line) ==
    IF StartsWith(line, S_PLUS) /\ ~StartsWith(line, S_PLUS3) THEN 1 ELSE 0

CountRemoved(line) ==
    IF StartsWith(line, S_MINUS) /\ ~StartsWith(line, S_MINUS3) THEN 1 ELSE 0

RECURSIVE StatsLoop(_, _, _, _)
StatsLoop(lines, i, added, removed) ==
    IF i > Len(lines) THEN [added |-> added, removed |-> removed]
    ELSE StatsLoop(lines, i + 1, added + CountAdded(lines[i]),
                   removed + CountRemoved(lines[i]))

getDiffStats(lines) == StatsLoop(lines, 1, 0, 0)

FileStatusView_getDiffStats(diff) == StatsLoop(SplitLines(diff), 1, 0, 0)

(***************************************************************************)
(* Input texts                                                             *)
(***************************************************************************)
MaxLines == 3

P_X == <<"x">>
P_YBZ == <<"y"," ","b","/","z">>
Paths == {P_X, P_YBZ}

\* 'diff --git a/<p> b/<q>'
Header(p, q) == S_DIFF_GIT_A \o p \o S_B \o q

L_HEADER_X == Header(P_X, P_X)
L_HEADER_YBZ == Header(P_X, P_YBZ)
L_HEADER_RAW == S_DIFF_GIT \o <<" ","x">>
L_NOT_HEADER == <<" ">> \o L_HEADER_X
L_INDEX == <<"i","n","d","e","x"," ","1","2","3",".",".","4","5","6">>
L_OLD == <<"-","-","-"," ","a","/","x">>
L_NEW == <<"+","+","+"," ","b","/","x">>
L_HUNK == <<"@","@"," ","-","1",",","1"," ","+","1",",","1"," ","@","@">>
L_DEL == <<"-","b","a","r">>
L_ADD == <<"+","f","o","o">>
L_DEL_RULE == <<"-","-","-","-">>
L_ADD_INCR == <<"+","+","+","i">>
L_EMPTY == <<>>

LineAlphabet ==
    { L_HEADER_X, L_HEADER_YBZ, L_HEADER_RAW, L_NOT_HEADER, L_OLD, L_NEW,
      L_HUNK, L_DEL, L_ADD, L_DEL_RULE, L_ADD_INCR, L_EMPTY }

ExampleLines == <<L_HEADER_X, L_INDEX, L_OLD, L_NEW, L_HUNK, L_DEL, L_ADD>>

LineSeqs(n) == UNION { [1..k -> LineAlphabet] : k \in 0..n }

DiffInputs == LineSeqs(MaxLines) \cup {ExampleLines}

(***************************************************************************)
(* Commit-graph layout.  get_graph_log computes column and color in the    *)
(* Rust back end (src-tauri/src/git.rs); the front end only declares the   *)
(* result type GraphCommit.  The pass below is the documented algorithm:   *)
(*  a. a commit whose hash holds a reserved slot takes that column and     *)
(*     colour, and the slot becomes free;                                  *)
(*  b. otherwise it takes the lowest free column (first fit) and a fresh   *)
(*     colour, cycled through the palette;                                 *)
(*  c. each parent, in order, that holds no reserved slot is reserved: the *)
(*     first parent in the commit's own column with the commit's colour,   *)
(*     every further parent in a newly allocated column.                   *)
(* Columns are numbered from 0; slot i of lanes is column i - 1.           *)
(***************************************************************************)
PaletteSize == 8

FreeSlot == [hash |-> 0, color |-> 0]

SlotsOf(ls, h) == { i \in 1..Len(ls) : ls[i].hash = h }

IsReserved(ls, h) == SlotsOf(ls, h) # {}

SlotOf(ls, h) == CHOOSE i \in SlotsOf(ls, h) : \A j \in SlotsOf(ls, h) : i <= j

\* first fit: the lowest free slot, or a new slot at the end of the list
LowestFree(ls) ==
    IF SlotsOf(ls, 0) = {} THEN Len(ls) + 1 ELSE SlotOf(ls, 0)

\* a newly allocated column: a new slot at the end of the growable list
NewLane(ls) == Len(ls) + 1

SetSlot(ls, i, v) ==
    IF i <= Len(ls) THEN [ls EXCEPT ![i] = v] ELSE Append(ls, v)

FreshColor(n) == n % PaletteSize

\* Variant: the first parent is treated like the further parents
FirstParentSlot_NewLane(ls, own) == NewLane(ls)

\* the first parent continues the commit's own lane
FirstParentSlot(ls, own) == own

\* step c for the parents j..Len(ps) of a commit placed in slot own with
\* colour col; st is [lanes, nextColor]
RECURSIVE ReserveParents(_, _, _, _, _)
ReserveParents(ps, j, own, col, st) ==
    IF j > Len(ps) THEN st
    ELSE IF IsReserved(st.lanes, ps[j])
    THEN ReserveParents(ps, j + 1, own, col, st)
    ELSE IF j = 1
    THEN ReserveParents(ps, j + 1, own, col,
             [st EXCEPT !.lanes = SetSlot(st.lanes, FirstParentSlot(st.lanes, own),
                                          [hash |-> ps[j], color |-> col])])
    ELSE ReserveParents(ps, j + 1, own, col,
             [lanes |-> SetSlot(st.lanes, NewLane(st.lanes),
                                [hash |-> ps[j], color |-> FreshColor(st.nextColor)]),
              nextColor |-> st.nextColor + 1])

\* Variant: the reservation made for the commit is ignored
PlaceCommit_IgnoreReserved(c, ls, nc) ==
    [slot |-> LowestFree(ls), color |-> FreshColor(nc),
     lanes |-> SetSlot(ls, LowestFree(ls), FreeSlot),
     nextColor |-> nc + 1]

\* steps a and b: the slot and colour of the commit, and the lane state
\* with the commit's own slot free
PlaceCommit(c, ls, nc) ==
    IF IsReserved(ls, c.hash)
    THEN [slot |-> SlotOf(ls, c.hash), color |-> ls[SlotOf(ls, c.hash)].color,
          lanes |-> [ls EXCEPT ![SlotOf(ls, c.hash)] = FreeSlot],
          nextColor |-> nc]
    ELSE [slot |-> LowestFree(ls), color |-> FreshColor(nc),
          lanes |-> SetSlot(ls, LowestFree(ls), FreeSlot),
          nextColor |-> nc + 1]

\* one row of the pass
BuildRow(c, ls, nc) ==
    LET p == PlaceCommit(c, ls, nc)
        st == ReserveParents(c.parents, 1, p.slot, p.color,
                             [lanes |-> p.lanes, nextColor |-> p.nextColor])
    IN [column |-> p.slot - 1, color |-> p.color,
        lanes |-> st.lanes, nextColor |-> st.nextColor]

\* Variant: the colour counter of the previous build is carried over
InitialNextColor_Kept(prev) == prev

\* the lane state is local to one build call and starts empty
InitialNextColor(prev) == 0

InitialLanes(prev) == <<>>

(***************************************************************************)
(* Input commit lists: the commit of row i has hash i; its parents are     *)
(* none, one or two distinct hashes of later rows or the hash n + 1 of a   *)
(* commit that the max-count limit cut off (children come before parents). *)
(***************************************************************************)
MaxCommits == 4
MaxRebuildCommits == 3
MaxBetweenCommits == 1

ParentSeqs(S) ==
    {<<>>} \cup { <<p>> : p \in S }
           \cup { s \in { <<p, q>> : p \in S, q \in S } : s[1] # s[2] }

RECURSIVE RowsFrom(_, _)
RowsFrom(i, n) ==
    IF i > n THEN {<<>>}
    ELSE { <<[hash |-> i, parents |-> ps]>> \o t :
               ps \in ParentSeqs((i + 1)..(n + 1)), t \in RowsFrom(i + 1, n) }

Histories(max) == UNION { RowsFrom(1, n) : n \in 0..max }

\* the scenario c3(c2), c2(c1, c0), c1, c0 with c3, c2, c1, c0 = 1, 2, 3, 4
MergeExample ==
    << [hash |-> 1, parents |-> <<2>>], [hash |-> 2, parents |-> <<3, 4>>],
       [hash |-> 3, parents |-> <<>>], [hash |-> 4, parents |-> <<>>] >>

(***************************************************************************)
(* The builder called on a list                                            *)
(***************************************************************************)
Triples == [r \in 1..Len(columns) |-> <<r - 1, columns[r], colors[r]>>]

\* a call of the builder: the first and the third call get refList, the
\* second otherList; the builder starts from its initial lane state
StartBuild ==
    /\ bphase \in {"idle", "built"}
    /\ buildsLeft > 0
    /\ commitList' = IF buildNo = 1 THEN otherList ELSE refList
    /\ lanes' = InitialLanes(lanes)
    /\ nextColor' = InitialNextColor(nextColor)
    /\ row' = 0
    /\ columns' = <<>>
    /\ colors' = <<>>
    /\ bphase' = "building"
    /\ buildNo' = buildNo + 1
    /\ buildsLeft' = buildsLeft - 1
    /\ UNCHANGED <<refList, otherList, firstResult>>
    /\ BuildFrame

BuildStep ==
    /\ bphase = "building"
    /\ row < Len(commitList)
    /\ LET r == BuildRow(commitList[row + 1], lanes, nextColor) IN
       /\ columns' = Append(columns, r.column)
       /\ colors' = Append(colors, r.color)
       /\ lanes' = r.lanes
       /\ nextColor' = r.nextColor
    /\ row' = row + 1
    /\ UNCHANGED <<commitList, bphase, refList, otherList, buildNo,
                   buildsLeft, firstResult>>
    /\ BuildFrame

BuildFinish ==
    /\ bphase = "building"
    /\ row = Len(commitList)
    /\ bphase' = "built"
    /\ firstResult' = IF buildNo = 1 THEN <<Triples>> ELSE firstResult
    /\ UNCHANGED <<commitList, lanes, nextColor, row, columns, colors,
                   refList, otherList, buildNo, buildsLeft>>
    /\ BuildFrame

(***************************************************************************)
(* The diff sectioniser applied to an input                                *)
(***************************************************************************)
\* render of the commit-diff section: parseDiffByFile(commitDiff)
Parse ==
    /\ dphase = "input"
    /\ files' = parseDiffByFile(diffText)
    /\ dphase' = "parsed"
    /\ UNCHANGED <<srcLines, diffText, stats, fileViewStats>>
    /\ DiffFrame

\* per file: getDiffStats(file.lines); file-status view: getDiffStats(diff)
ComputeStats ==
    /\ dphase = "parsed"
    /\ stats' = [k \in 1..Len(files) |-> getDiffStats(files[k].lines)]
    /\ fileViewStats' = FileStatusView_getDiffStats(diffText)
    /\ dphase' = "stats"
    /\ UNCHANGED <<srcLines, diffText, files>>
    /\ DiffFrame

(***************************************************************************)
(* BranchGraph.  One mounted instance; the parent may change the repoPath  *)
(* prop.  A promise that was started keeps the repoPath (and fetchGraph)   *)
(* of the render it was started in.                                        *)
(***************************************************************************)
MaxGraphReqs == 2
MaxDiffReqs == 1
MaxOps == 2

Repos == {"repoA", "repoB"}
Commits == {"c1", "c2"}
NoRepo == "none"
NoCommit == "none"
EmptyDiff == <<>>

\* what get_commit_diff returns for a commit of a repository
DiffOf(path, hash) == <<path, hash>>

OpKinds ==
    { "checkout_commit", "create_branch_at", "reset_to_commit", "create_tag",
      "cherry_pick", "revert_commit", "stash_save", "stash_pop",
      "merge_branch", "rebase_onto", "delete_branch", "rename_branch" }

\* the success branch of the handler calls fetchGraph()
CallsFetchGraph(kind) == kind # "stash_save"

\* the commit rows and their context menus are rendered
ListShown == ~gLoading /\ ~gError /\ gCommits # "none"

\* fetchGraph of the render with repoPath = path, up to its await
CallFetchGraph(path) ==
    /\ graphReqs[path] < MaxGraphReqs
    /\ gLoading' = TRUE
    /\ gError' = FALSE
    /\ graphReqs' = [graphReqs EXCEPT ![path] = @ + 1]

\* .then((diff) => setCommitDiff(diff)): every response is applied
DiffApplies(path, hash) == TRUE

\* the effect on [selectedCommit, repoPath], run after a render in which
\* one of them changed to sel / path
DiffEffect(sel, path) ==
    IF sel # NoCommit
    THEN /\ diffReqs[<<path, sel>>] < MaxDiffReqs
         /\ diffLoading' = TRUE
         /\ commitDiff' = EmptyDiff
         /\ diffReqs' = [diffReqs EXCEPT ![<<path, sel>>] = @ + 1]
    ELSE /\ commitDiff' = EmptyDiff
         /\ UNCHANGED <<diffLoading, diffReqs>>

\* the parent renders the component with another repoPath
GChangeRepoPath(path) ==
    /\ path # gRepoPath
    /\ gRepoPath' = path
    /\ CallFetchGraph(path)
    /\ DiffEffect(selectedCommit, path)
    /\ UNCHANGED <<gCommits, selectedCommit, ops, gToast, gSettled>>
    /\ GraphFrame

\* getGraphLog resolves: setCommits(data), finally setLoading(false)
GraphResolve(path) ==
    /\ graphReqs[path] > 0
    /\ graphReqs' = [graphReqs EXCEPT ![path] = @ - 1]
    /\ gCommits' = path
    /\ gLoading' = FALSE
    /\ UNCHANGED <<gRepoPath, gError, selectedCommit, commitDiff, diffLoading,
                   diffReqs, ops, gToast, gSettled>>
    /\ GraphFrame

\* getGraphLog rejects: setError(message), finally setLoading(false)
GraphReject(path) ==
    /\ graphReqs[path] > 0
    /\ graphReqs' = [graphReqs EXCEPT ![path] = @ - 1]
    /\ gError' = TRUE
    /\ gLoading' = FALSE
    /\ UNCHANGED <<gRepoPath, gCommits, selectedCommit, commitDiff, diffLoading,
                   diffReqs, ops, gToast, gSettled>>
    /\ GraphFrame

\* click on a commit row or node: select it, or unselect the selected one
ClickCommit(hash) ==
    /\ ListShown
    /\ selectedCommit' = IF hash = selectedCommit THEN NoCommit ELSE hash
    /\ DiffEffect(selectedCommit', gRepoPath)
    /\ UNCHANGED <<gRepoPath, gCommits, gLoading, gError, graphReqs, ops, gToast, gSettled>>
    /\ GraphFrame

\* getCommitDiff resolves: setCommitDiff(diff), finally setDiffLoading(false)
DiffResolve(path, hash) ==
    /\ diffReqs[<<path, hash>>] > 0
    /\ diffReqs' = [diffReqs EXCEPT ![<<path, hash>>] = @ - 1]
    /\ commitDiff' = IF DiffApplies(path, hash) THEN DiffOf(path, hash) ELSE commitDiff
    /\ diffLoading' = FALSE
    /\ UNCHANGED <<gRepoPath, gCommits, gLoading, gError, graphReqs,
                   selectedCommit, ops, gToast, gSettled>>
    /\ GraphFrame

\* getCommitDiff rejects: setCommitDiff(''), finally setDiffLoading(false)
DiffReject(path, hash) ==
    /\ diffReqs[<<path, hash>>] > 0
    /\ diffReqs' = [diffReqs EXCEPT ![<<path, hash>>] = @ - 1]
    /\ commitDiff' = EmptyDiff
    /\ diffLoading' = FALSE
    /\ UNCHANGED <<gRepoPath, gCommits, gLoading, gError, graphReqs,
                   selectedCommit, ops, gToast, gSettled>>
    /\ GraphFrame

\* Variant: a handler starts only when no operation is in flight
MayStart_OneAtATime(inflight) == inflight = {}

\* the menu items are never disabled and no handler tests a flag or waits
\* for another one
MayStart(inflight) == TRUE

\* a context-menu handler up to its await invoke(...)
StartOp(kind) ==
    /\ ListShown
    /\ MayStart(ops)
    /\ Cardinality(ops) < MaxOps
    /\ [kind |-> kind, path |-> gRepoPath] \notin ops
    /\ ops' = ops \cup {[kind |-> kind, path |-> gRepoPath]}
    /\ UNCHANGED <<gRepoPath, gCommits, gLoading, gError, graphReqs,
                   selectedCommit, commitDiff, diffLoading, diffReqs, gToast, gSettled>>
    /\ GraphFrame

\* the invoke resolves: toast.success, fetchGraph() unless the handler has
\* none, onRefresh?.() (App passes no onRefresh)
OpSucceed(o) ==
    /\ o \in ops
    /\ ops' = ops \ {o}
    /\ gToast' = "success"
    /\ gSettled' = "resolved"
    /\ IF CallsFetchGraph(o.kind)
       THEN CallFetchGraph(o.path)
       ELSE UNCHANGED <<gLoading, gError, graphReqs>>
    /\ UNCHANGED <<gRepoPath, gCommits, selectedCommit, commitDiff, diffLoading,
                   diffReqs>>
    /\ GraphFrame

\* Variant: the catch block also re-fetches the commit list
CatchBlock_Refetch(kind) ==
    /\ gToast' = "error"
    /\ CallFetchGraph(gRepoPath)

\* the catch block of a handler: toast.error
CatchBlock(kind) ==
    /\ gToast' = "error"
    /\ UNCHANGED <<gLoading, gError, graphReqs>>

\* the invoke rejects: the catch block runs
OpFail(o) ==
    /\ o \in ops
    /\ ops' = ops \ {o}
    /\ gSettled' = "rejected"
    /\ CatchBlock(o.kind)
    /\ UNCHANGED <<gRepoPath, gCommits, selectedCommit, commitDiff, diffLoading,
                   diffReqs>>
    /\ GraphFrame

(***************************************************************************)
(* App.  Every change of selectedRepoId cleans up the two effects of the   *)
(* previous render and runs them again; a callback keeps the selectedRepo  *)
(* of the render it was created in.  listen() registers its handler with   *)
(* the event system at some moment and resolves its promise at a later     *)
(* one; the cleanup of the effect unlistens once the promise has resolved. *)
(* Time advances in ticks; a timer that is due runs before time advances.  *)
(***************************************************************************)
DebounceMs == 300
TickMs == 100
MaxInfoReqs == 2
MaxStale == 1
MaxBurstFetches == 2

NoTimer == 0 - 1

Min(a, b) == IF a < b THEN a ELSE b

\* a run of the debounce effect in a render with selectedRepo = repo:
\* reg is "pending" (listen() called), "registered" (the handler receives
\* events), "resolved" (the promise gave the unlisten function) or
\* "unlistened"; live = the cleanup has not run; timer = ms left of
\* debounceTimer; counted = the timer was set by the burst in progress
Listener(repo) ==
    [repo |-> repo, reg |-> "pending", live |-> TRUE, timer |-> NoTimer,
     counted |-> FALSE]

\* nothing of the effect run can act any more
IsGone(l) == ~l.live /\ l.reg = "unlistened" /\ l.timer = NoTimer

NotGone(l) == ~IsGone(l)

Prune(ls) == SelectSeq(ls, NotGone)

\* the cleanup of the debounce effect: clearTimeout(debounceTimer) and
\* unlisten.then(fn => fn()), which unlistens at once when the promise has
\* resolved and when it resolves otherwise
CleanupOf(l) ==
    IF ~l.live THEN [l EXCEPT !.counted = FALSE]
    ELSE [l EXCEPT !.live = FALSE, !.timer = NoTimer, !.counted = FALSE,
                   !.reg = IF l.reg = "resolved" THEN "unlistened" ELSE l.reg]

\* the repository view (QuickStatus, the quick-action buttons, BranchGraph,
\* FileStatusView, InlineCommit) is rendered
RepoViewShown == selectedRepo # NoRepo /\ ~loading /\ repoInfo # NoRepo

NoView == <<>>

\* the state a child has after it was mounted
InitialView == <<"", "none", NoCommit>>

\* the render after a step of App: children that are not rendered are
\* unmounted and start from their initial state when they are rendered again
ViewAfter ==
    /\ message' = IF RepoViewShown' THEN message ELSE InitialView[1]
    /\ selectedPrefix' = IF RepoViewShown' THEN selectedPrefix ELSE InitialView[2]
    /\ viewCommit' = IF RepoViewShown' THEN viewCommit ELSE InitialView[3]
    /\ viewBefore' = IF selectedRepo' # selectedRepo THEN NoView
                     ELSE IF RepoViewShown /\ ~RepoViewShown'
                          THEN <<message, selectedPrefix, viewCommit>>
                          ELSE viewBefore

\* Variant: the callback does not call getRepoInfo
CallFetchRepoInfo_Skip(repo) == UNCHANGED <<repoInfo, loading, infoReqs>>

\* fetchRepoInfo of a render with selectedRepo = repo, up to its await
CallFetchRepoInfo(repo) ==
    IF repo = NoRepo
    THEN /\ repoInfo' = NoRepo
         /\ UNCHANGED <<loading, infoReqs>>
    ELSE /\ infoReqs[repo] < MaxInfoReqs
         /\ loading' = TRUE
         /\ infoReqs' = [infoReqs EXCEPT ![repo] = @ + 1]
         /\ UNCHANGED repoInfo

TimerDue ==
    \/ \E i \in 1..Len(listeners) : listeners[i].timer = 0
    \/ initTimer = 0

TimerRunning ==
    \/ \E i \in 1..Len(listeners) : listeners[i].timer # NoTimer
    \/ initTimer # NoTimer

\* selectRepo(r) of the store and the render that follows: the cleanups of
\* the effects on [selectedRepoId], then the effects
Select(r) ==
    /\ selectedRepo' = r
    /\ LET rest == Prune([i \in 1..Len(listeners) |-> CleanupOf(listeners[i])]) IN
       /\ Len(rest) <= MaxStale
       /\ listeners' = Append(rest, Listener(r))
    /\ CallFetchRepoInfo(r)
    /\ burstOpen' = FALSE
    /\ burstFetches' = 0

\* click on a repository of the list that is not the selected one
SelectRepo(r) ==
    /\ r # selectedRepo
    /\ Select(r)
    /\ ViewAfter
    /\ UNCHANGED sinceLast
    /\ UNCHANGED <<actVars, initVars>>
    /\ AppFrame

\* the event system registers the handler of a listen() call
ListenRegistered(i) ==
    /\ listeners[i].reg = "pending"
    /\ listeners' = [listeners EXCEPT ![i].reg = "registered"]
    /\ UNCHANGED <<selectedRepo, repoInfo, loading, infoReqs, sinceLast,
                   burstOpen, burstFetches>>
    /\ UNCHANGED <<actVars, viewVars, initVars>>
    /\ AppFrame

\* the promise of a listen() call resolves; after the cleanup its
\* continuation fn => fn() unlistens
ListenResolved(i) ==
    /\ listeners[i].reg = "registered"
    /\ listeners' = Prune([listeners EXCEPT ![i].reg =
                              IF listeners[i].live THEN "resolved" ELSE "unlistened"])
    /\ UNCHANGED <<selectedRepo, repoInfo, loading, infoReqs, sinceLast,
                   burstOpen, burstFetches>>
    /\ UNCHANGED <<actVars, viewVars, initVars>>
    /\ AppFrame

\* a 'git-changed' event: every registered handler clears its timer and
\* sets a new one
Notify ==
    /\ ~TimerDue
    /\ listeners' = [i \in 1..Len(listeners) |->
                        IF listeners[i].reg \in {"registered", "resolved"}
                        THEN [listeners[i] EXCEPT !.timer = DebounceMs, !.counted = TRUE]
                        ELSE listeners[i]]
    /\ sinceLast' = 0
    /\ burstOpen' = TRUE
    /\ burstFetches' = IF burstOpen /\ sinceLast < DebounceMs THEN burstFetches ELSE 0
    /\ UNCHANGED <<selectedRepo, repoInfo, loading, infoReqs>>
    /\ UNCHANGED <<actVars, viewVars, initVars>>
    /\ AppFrame

\* TickMs pass
Tick ==
    /\ ~TimerDue
    /\ TimerRunning \/ sinceLast < DebounceMs
    /\ listeners' = [i \in 1..Len(listeners) |->
                        IF listeners[i].timer = NoTimer THEN listeners[i]
                        ELSE [listeners[i] EXCEPT !.timer =
                                 IF @ > TickMs THEN @ - TickMs ELSE 0]]
    /\ sinceLast' = Min(sinceLast + TickMs, DebounceMs)
    /\ UNCHANGED <<selectedRepo, repoInfo, loading, infoReqs, burstOpen,
                   burstFetches>>
    /\ initTimer' = IF initTimer = NoTimer THEN NoTimer
                    ELSE IF initTimer > TickMs THEN initTimer - TickMs ELSE 0
    /\ UNCHANGED <<initLoading, initClosure, initFolder, initRefreshed,
                   initDialogs, initCalls>>
    /\ UNCHANGED <<actVars, viewVars>>
    /\ AppFrame

\* the timer callback: fetchRepoInfo() of the render of the effect run
TimerFire(i) ==
    /\ listeners[i].timer = 0
    /\ CallFetchRepoInfo(listeners[i].repo)
    /\ listeners' = Prune([listeners EXCEPT ![i].timer = NoTimer,
                                            ![i].counted = FALSE])
    /\ burstFetches' = IF listeners[i].counted
                       THEN Min(burstFetches + 1, MaxBurstFetches)
                       ELSE burstFetches
    /\ UNCHANGED <<selectedRepo, sinceLast, burstOpen>>
    /\ ViewAfter
    /\ UNCHANGED <<actVars, initVars>>
    /\ AppFrame

\* setRepoInfo(info): every response is applied
InfoApplied(path) == path

\* getRepoInfo resolves: setRepoInfo(info), finally setLoading(false)
InfoResolve(path) ==
    /\ infoReqs[path] > 0
    /\ infoReqs' = [infoReqs EXCEPT ![path] = @ - 1]
    /\ repoInfo' = InfoApplied(path)
    /\ loading' = FALSE
    /\ UNCHANGED <<selectedRepo, listeners, sinceLast, burstOpen, burstFetches>>
    /\ ViewAfter
    /\ UNCHANGED <<actVars, initVars>>
    /\ AppFrame

\* getRepoInfo rejects: toast.error, setRepoInfo(null), finally
\* setLoading(false)
InfoReject(path) ==
    /\ infoReqs[path] > 0
    /\ infoReqs' = [infoReqs EXCEPT ![path] = @ - 1]
    /\ repoInfo' = NoRepo
    /\ loading' = FALSE
    /\ UNCHANGED <<selectedRepo, listeners, sinceLast, burstOpen, burstFetches>>
    /\ ViewAfter
    /\ UNCHANGED <<actVars, initVars>>
    /\ AppFrame

NoAction == "none"

GitActions == {"fetch", "pull", "push"}

\* the catch block of handleGitAction: toast.error
ActionCatch(repo) ==
    /\ aToast' = "error"
    /\ UNCHANGED <<repoInfo, loading, infoReqs>>

\* handleGitAction(action) up to its await; the buttons are disabled while
\* actionLoading is not null
GitActionStart(action) ==
    /\ RepoViewShown
    /\ actionLoading = NoAction
    /\ actionLoading' = action
    /\ actionRepo' = selectedRepo
    /\ UNCHANGED <<aToast, aSettled>>
    /\ UNCHANGED <<selectedRepo, repoInfo, loading, infoReqs, listeners,
                   sinceLast, burstOpen, burstFetches>>
    /\ UNCHANGED <<viewVars, initVars>>
    /\ AppFrame

\* the backend call resolves: toast.success, fetchRepoInfo(), finally
\* setActionLoading(null)
GitActionSucceed ==
    /\ actionLoading # NoAction
    /\ aSettled' = "resolved"
    /\ aToast' = "success"
    /\ CallFetchRepoInfo(actionRepo)
    /\ actionLoading' = NoAction
    /\ UNCHANGED actionRepo
    /\ UNCHANGED <<selectedRepo, listeners, sinceLast, burstOpen, burstFetches>>
    /\ ViewAfter
    /\ UNCHANGED initVars
    /\ AppFrame

\* the backend call rejects: the catch block, finally setActionLoading(null)
GitActionFail ==
    /\ actionLoading # NoAction
    /\ aSettled' = "rejected"
    /\ ActionCatch(actionRepo)
    /\ actionLoading' = NoAction
    /\ UNCHANGED actionRepo
    /\ UNCHANGED <<selectedRepo, listeners, sinceLast, burstOpen, burstFetches>>
    /\ UNCHANGED <<viewVars, initVars>>
    /\ AppFrame

\* onBranchChange?.() and onRefresh() of QuickStatus, one after the other:
\* both props are fetchRepoInfo of the render with selectedRepo = repo, and
\* each call sets loading and starts its own getRepoInfo
CallFetchRepoInfoTwice(repo) ==
    /\ infoReqs[repo] + 1 < MaxInfoReqs
    /\ loading' = TRUE
    /\ infoReqs' = [infoReqs EXCEPT ![repo] = @ + 2]
    /\ UNCHANGED repoInfo

\* QuickStatus.handleBranchChange(branchName) with another branch than the
\* current one, up to its await (one checkoutBranch call in flight at a time)
CheckoutStart ==
    /\ RepoViewShown
    /\ checkoutRepo = NoRepo
    /\ checkoutRepo' = selectedRepo
    /\ UNCHANGED appVars
    /\ QuickFrame

\* checkoutBranch resolves: toast.success, onBranchChange?.(), onRefresh()
CheckoutSucceed ==
    /\ checkoutRepo # NoRepo
    /\ CallFetchRepoInfoTwice(checkoutRepo)
    /\ checkoutRepo' = NoRepo
    /\ UNCHANGED <<selectedRepo, listeners, sinceLast, burstOpen, burstFetches>>
    /\ ViewAfter
    /\ UNCHANGED <<actVars, initVars>>
    /\ QuickFrame

\* checkoutBranch rejects: toast.error
CheckoutFail ==
    /\ checkoutRepo # NoRepo
    /\ checkoutRepo' = NoRepo
    /\ UNCHANGED appVars
    /\ QuickFrame

InitRefreshMs == 100

MaxInitRuns == 2

\* runs of handleInitRepo that are past the guard and have not ended
InitRuns == initDialogs + initCalls["repoA"] + initCalls["repoB"]

\* Variant: handleInitRepo without its guard
PassesInitGuard_Always(isLoading) == TRUE

\* if (initLoading) return
PassesInitGuard(isLoading) == ~isLoading

\* handleInitRepo up to its first await: a click on the menu item or on the
\* button of the empty page; open() shows the folder dialog
InitRepoStart ==
    /\ PassesInitGuard(initLoading)
    /\ initTimer = NoTimer
    /\ InitRuns < MaxInitRuns
    /\ initLoading' = TRUE
    /\ initDialogs' = initDialogs + 1
    /\ initClosure' = selectedRepo
    /\ initFolder' = NoRepo
    /\ initRefreshed' = FALSE
    /\ UNCHANGED <<initTimer, initCalls>>
    /\ UNCHANGED <<selectedRepo, repoInfo, loading, infoReqs, listeners,
                   sinceLast, burstOpen, burstFetches>>
    /\ UNCHANGED <<actVars, viewVars>>
    /\ AppFrame

\* a click while initLoading is set: handleInitRepo returns at its guard
InitRepoAgain ==
    /\ ~PassesInitGuard(initLoading)
    /\ UNCHANGED appVars
    /\ AppFrame

\* the dialog is closed without a folder, or open() rejects: finally
\* setInitLoading(false)
InitRepoNone ==
    /\ initDialogs > 0
    /\ initDialogs' = initDialogs - 1
    /\ initLoading' = FALSE
    /\ UNCHANGED <<initClosure, initFolder, initTimer, initRefreshed, initCalls>>
    /\ UNCHANGED <<selectedRepo, repoInfo, loading, infoReqs, listeners,
                   sinceLast, burstOpen, burstFetches>>
    /\ UNCHANGED <<actVars, viewVars>>
    /\ AppFrame

\* open() gave a folder (the folders offered are those of the listed
\* repositories): await initRepo(selected)
InitFolderChosen(r) ==
    /\ initDialogs > 0
    /\ initDialogs' = initDialogs - 1
    /\ initCalls' = [initCalls EXCEPT ![r] = @ + 1]
    /\ UNCHANGED <<initLoading, initClosure, initFolder, initTimer, initRefreshed>>
    /\ UNCHANGED <<selectedRepo, repoInfo, loading, infoReqs, listeners,
                   sinceLast, burstOpen, burstFetches>>
    /\ UNCHANGED <<actVars, viewVars>>
    /\ AppFrame

\* initRepo() rejects: toast.error, finally setInitLoading(false)
InitRepoReject(r) ==
    /\ initCalls[r] > 0
    /\ initCalls' = [initCalls EXCEPT ![r] = @ - 1]
    /\ initLoading' = FALSE
    /\ UNCHANGED <<initClosure, initFolder, initTimer, initRefreshed, initDialogs>>
    /\ UNCHANGED <<selectedRepo, repoInfo, loading, infoReqs, listeners,
                   sinceLast, burstOpen, burstFetches>>
    /\ UNCHANGED <<actVars, viewVars>>
    /\ AppFrame

\* initRepo() resolved for the folder of a listed repository:
\* selectRepo(existing.id), setTimeout(() => fetchRepoInfo(), 100),
\* finally setInitLoading(false)
InitRepoExisting(r) ==
    /\ initCalls[r] > 0
    /\ initCalls' = [initCalls EXCEPT ![r] = @ - 1]
    /\ IF r # selectedRepo
       THEN Select(r)
       ELSE UNCHANGED <<selectedRepo, listeners, repoInfo, loading, infoReqs,
                        burstOpen, burstFetches>>
    /\ initTimer' = InitRefreshMs
    /\ initFolder' = r
    /\ initLoading' = FALSE
    /\ ViewAfter
    /\ UNCHANGED <<initClosure, initRefreshed, initDialogs>>
    /\ UNCHANGED sinceLast
    /\ UNCHANGED actVars
    /\ AppFrame

\* the callback of that timer: fetchRepoInfo() of the render in which
\* handleInitRepo was started
InitTimerFire ==
    /\ initTimer = 0
    /\ CallFetchRepoInfo(initClosure)
    /\ initTimer' = NoTimer
    /\ initRefreshed' = TRUE
    /\ UNCHANGED <<initLoading, initClosure, initFolder, initDialogs, initCalls>>
    /\ UNCHANGED <<selectedRepo, listeners, sinceLast, burstOpen, burstFetches>>
    /\ ViewAfter
    /\ UNCHANGED actVars
    /\ AppFrame

Texts == {"wip"}

Prefixes == {"feat"}

\* typing in the textarea of InlineCommit
TypeMessage(text) ==
    /\ RepoViewShown
    /\ message' = text
    /\ UNCHANGED <<selectedPrefix, viewCommit, viewBefore>>
    /\ UNCHANGED <<selectedRepo, repoInfo, loading, infoReqs, listeners,
                   sinceLast, burstOpen, burstFetches>>
    /\ UNCHANGED <<actVars, initVars>>
    /\ AppFrame

\* click on a prefix button of InlineCommit: choose it, or drop the chosen one
PickPrefix(prefix) ==
    /\ RepoViewShown
    /\ selectedPrefix' = IF selectedPrefix = prefix THEN "none" ELSE prefix
    /\ UNCHANGED <<message, viewCommit, viewBefore>>
    /\ UNCHANGED <<selectedRepo, repoInfo, loading, infoReqs, listeners,
                   sinceLast, burstOpen, burstFetches>>
    /\ UNCHANGED <<actVars, initVars>>
    /\ AppFrame

\* click on a commit of the BranchGraph that App renders
PickCommit(hash) ==
    /\ RepoViewShown
    /\ viewCommit' = IF hash = viewCommit THEN NoCommit ELSE hash
    /\ UNCHANGED <<message, selectedPrefix, viewBefore>>
    /\ UNCHANGED <<selectedRepo, repoInfo, loading, infoReqs, listeners,
                   sinceLast, burstOpen, burstFetches>>
    /\ UNCHANGED <<actVars, initVars>>
    /\ AppFrame

(***************************************************************************)
(* Rendering of the lines of a file section: the old / new line numbers    *)
(* shown in front of each line                                             *)
(***************************************************************************)
ShownLines == 100
MaxNumLines == 4

NoNum == 0 - 1

DigitVal ==
    [c \in {"0", "1", "2", "3", "4", "5", "6", "7", "8", "9"} |->
        CASE c = "0" -> 0 [] c = "1" -> 1 [] c = "2" -> 2 [] c = "3" -> 3
          [] c = "4" -> 4 [] c = "5" -> 5 [] c = "6" -> 6 [] c = "7" -> 7
          [] c = "8" -> 8 [] c = "9" -> 9]

IsDigit(c) == c \in DOMAIN DigitVal

\* the position after the longest run of digits that starts at i (\d+ needs
\* the result to be greater than i)
RECURSIVE DigitsEnd(_, _)
DigitsEnd(line, i) ==
    IF i <= Len(line) /\ IsDigit(line[i]) THEN DigitsEnd(line, i + 1) ELSE i

\* the position after (?:,\d+)? that starts at i
CountEnd(line, i) ==
    IF /\ i + 1 <= Len(line)
       /\ line[i] = ","
       /\ IsDigit(line[i + 1])
    THEN DigitsEnd(line, i + 1)
    ELSE i

\* parseInt of the digits line[i..j-1]
RECURSIVE ParseInt(_, _, _, _)
ParseInt(line, i, j, acc) ==
    IF i >= j THEN acc
    ELSE ParseInt(line, i + 1, j, acc * 10 + DigitVal[line[i]])

S_HUNK_OPEN == <<"@","@"," ","-">>
S_HUNK_MID == <<" ","+">>
S_HUNK_CLOSE == <<" ","@","@">>
S_INDEX == <<"i","n","d","e","x">>

\* line.match(/@@ -(\d+)(?:,\d+)? \+(\d+)(?:,\d+)? @@/) tried at position at:
\* <<>> for no match there, or <<[old, new]>>
HunkMatchAt(line, at) ==
    IF ~StartsWithAt(line, at, S_HUNK_OPEN) THEN <<>>
    ELSE LET a1 == at + Len(S_HUNK_OPEN)
             a2 == DigitsEnd(line, a1)
             a3 == CountEnd(line, a2)
             c1 == a3 + Len(S_HUNK_MID)
             c2 == DigitsEnd(line, c1)
             c3 == CountEnd(line, c2)
         IN IF /\ a2 > a1
               /\ StartsWithAt(line, a3, S_HUNK_MID)
               /\ c2 > c1
               /\ StartsWithAt(line, c3, S_HUNK_CLOSE)
            THEN << [old |-> ParseInt(line, a1, a2, 0),
                     new |-> ParseInt(line, c1, c2, 0)] >>
            ELSE <<>>

\* the first match in the line (the expression is not anchored)
HunkMatch(line) ==
    LET ats == { at \in 1..Len(line) : HunkMatchAt(line, at) # <<>> }
    IN IF ats = {} THEN <<>>
       ELSE HunkMatchAt(line, CHOOSE at \in ats : \A b \in ats : at <= b)

\* line.startsWith('index') || line.startsWith('---') || line.startsWith('+++')
IsHeaderLine(line) ==
    \/ StartsWith(line, S_INDEX)
    \/ StartsWith(line, S_MINUS3)
    \/ StartsWith(line, S_PLUS3)

\* the callback of file.lines.slice(0, 100).map for the lines i.. ; oldLine
\* and newLine are the counters of the closure, acc the numbers shown so far
RECURSIVE NumberLoop(_, _, _, _, _)
NumberLoop(lines, i, oldLine, newLine, acc) ==
    IF i > Len(lines) THEN acc
    ELSE LET line == lines[i] IN
         IF StartsWith(line, S_AT2)
         THEN LET m == HunkMatch(line) IN
              NumberLoop(lines, i + 1,
                         IF m # <<>> THEN m[1].old ELSE oldLine,
                         IF m # <<>> THEN m[1].new ELSE newLine,
                         Append(acc, [old |-> NoNum, new |-> NoNum]))
         ELSE IF IsHeaderLine(line)
         THEN NumberLoop(lines, i + 1, oldLine, newLine,
                         Append(acc, [old |-> NoNum, new |-> NoNum]))
         ELSE IF StartsWith(line, S_PLUS)
         THEN NumberLoop(lines, i + 1, oldLine, newLine + 1,
                         Append(acc, [old |-> NoNum, new |-> newLine]))
         ELSE IF StartsWith(line, S_MINUS)
         THEN NumberLoop(lines, i + 1, oldLine + 1, newLine,
                         Append(acc, [old |-> oldLine, new |-> NoNum]))
         ELSE NumberLoop(lines, i + 1, oldLine + 1, newLine + 1,
                         Append(acc, [old |-> oldLine, new |-> newLine]))

\* let oldLine = 0, newLine = 0; file.lines.slice(0, 100).map(...)
LineNumbers(lines) ==
    NumberLoop(SubSeq(lines, 1, Min(Len(lines), ShownLines)), 1, 0, 0, <<>>)

\* the lines of a rendered section: hunk headers '@@ -1,1 +1,1 @@' and
\* '@@ -12 +7,2 @@', header lines, added, removed and context lines
L_HUNK_12_7 == <<"@","@"," ","-","1","2"," ","+","7",",","2"," ","@","@">>
L_CTX == <<" ","c","t","x">>

NumAlphabet ==
    { L_HUNK, L_HUNK_12_7, L_INDEX, L_OLD, L_NEW, L_DEL, L_ADD, L_CTX, L_DEL_RULE }

NumInputs == UNION { [1..k -> NumAlphabet] : k \in 0..MaxNumLines }

\* the file section is expanded and its lines are rendered
RenderLines ==
    /\ nphase = "input"
    /\ numbers' = LineNumbers(numLines)
    /\ nphase' = "rendered"
    /\ UNCHANGED <<numLines, rCommits, connectors, nodes, rphase>>
    /\ RenderFrame

(***************************************************************************)
(* Drawing of the graph: renderConnections, renderNodes and the hash label *)
(* of a row.  The commits state is what getGraphLog returned: a list with  *)
(* the column and the color number of every commit.                        *)
(***************************************************************************)
MaxDrawCommits == 2
MaxColor == 9

\* Variant: a color number beyond the palette is drawn in the last colour
PaletteIndex_Clamped(color) ==
    IF color < PaletteSize THEN color ELSE PaletteSize - 1

\* COLORS[commit.color % COLORS.length]: the number of the palette entry
PaletteIndex(color) == color % PaletteSize

\* commitIndexMap: commits.forEach((c, idx) => map.set(c.hash, idx)); the
\* rows that hold hash h (a later row overwrites an earlier one)
RowsOf(commits, h) == { i \in 1..Len(commits) : commits[i].hash = h }

\* commitIndexMap.get(parentHash) !== undefined
HasRow(commits, h) == RowsOf(commits, h) # {}

\* commitIndexMap.get(parentHash)
ParentIndex(commits, h) ==
    CHOOSE i \in RowsOf(commits, h) : \A j \in RowsOf(commits, h) : j <= i

\* the element pushed for commit i and its parent hash h
Connector(commits, i, h) ==
    LET p == ParentIndex(commits, h) IN
    [from |-> i, to |-> p, color |-> PaletteIndex(commits[i].color),
     shape |-> IF commits[i].column = commits[p].column THEN "line" ELSE "path"]

\* commit.parents.forEach(...) for the parents j.. of commit i
RECURSIVE ParentsLoop(_, _, _, _)
ParentsLoop(commits, i, j, paths) ==
    IF j > Len(commits[i].parents) THEN paths
    ELSE IF HasRow(commits, commits[i].parents[j])
    THEN ParentsLoop(commits, i, j + 1,
                     Append(paths, Connector(commits, i, commits[i].parents[j])))
    ELSE ParentsLoop(commits, i, j + 1, paths)

\* Variant: only the first parent of a commit gets a connector
ConnectorsOfCommit_FirstParentOnly(commits, i, paths) ==
    IF /\ Len(commits[i].parents) > 0
       /\ HasRow(commits, commits[i].parents[1])
    THEN Append(paths, Connector(commits, i, commits[i].parents[1]))
    ELSE paths

\* the callback of commits.forEach for commit i
ConnectorsOfCommit(commits, i, paths) == ParentsLoop(commits, i, 1, paths)

RECURSIVE CommitsLoop(_, _, _)
CommitsLoop(commits, i, paths) ==
    IF i > Len(commits) THEN paths
    ELSE CommitsLoop(commits, i + 1, ConnectorsOfCommit(commits, i, paths))

renderConnections(commits) == CommitsLoop(commits, 1, <<>>)

\* renderNodes: the circle of every commit; label: the colour of the hash
\* text of its row
renderNodes(commits) ==
    [i \in 1..Len(commits) |->
        [row |-> i, column |-> commits[i].column,
         color |-> PaletteIndex(commits[i].color),
         label |-> PaletteIndex(commits[i].color)]]

\* the columns the builder gives to the rows of a list
RECURSIVE LayoutFrom(_, _, _, _, _)
LayoutFrom(list, i, ls, nc, acc) ==
    IF i > Len(list) THEN acc
    ELSE LET r == BuildRow(list[i], ls, nc) IN
         LayoutFrom(list, i + 1, r.lanes, r.nextColor, Append(acc, r.column))

WithLayout(h, cols, cs) ==
    [i \in 1..Len(h) |->
        [hash |-> h[i].hash, parents |-> h[i].parents,
         column |-> cols[i], color |-> cs[i]]]

\* the lists getGraphLog can return: a history, the columns of its layout,
\* any color numbers
IsDrawInput(commits) ==
    \E h \in Histories(MaxDrawCommits) :
        \E cs \in [1..Len(h) -> 0..MaxColor] :
            commits = WithLayout(h, LayoutFrom(h, 1, <<>>, 0, <<>>), cs)

\* a render of the loaded graph
DrawGraph ==
    /\ rphase = "input"
    /\ connectors' = renderConnections(rCommits)
    /\ nodes' = renderNodes(rCommits)
    /\ rphase' = "drawn"
    /\ UNCHANGED <<numLines, numbers, nphase, rCommits>>
    /\ RenderFrame

(***************************************************************************)
(* Specifications.  Each starts one part in its initial state, leaves the  *)
(* other parts switched off, and takes the steps of that part.             *)
(***************************************************************************)
\* the diff sectioniser applied to an input text
InitDiff ==
    /\ srcLines \in DiffInputs
    /\ diffText = JoinLines(srcLines)
    /\ files = <<>>
    /\ stats = <<>>
    /\ fileViewStats = [added |-> 0, removed |-> 0]
    /\ dphase = "input"
    /\ commitList = <<>>
    /\ lanes = <<>>
    /\ nextColor = 0
    /\ row = 0
    /\ columns = <<>>
    /\ colors = <<>>
    /\ bphase = "off"
    /\ refList = <<>>
    /\ otherList = <<>>
    /\ buildNo = 0
    /\ buildsLeft = 0
    /\ firstResult = <<>>
    /\ gRepoPath = NoRepo
    /\ gCommits = "none"
    /\ gLoading = FALSE
    /\ gError = FALSE
    /\ graphReqs = [p \in Repos |-> 0]
    /\ selectedCommit = NoCommit
    /\ commitDiff = EmptyDiff
    /\ diffLoading = FALSE
    /\ diffReqs = [k \in Repos \X Commits |-> 0]
    /\ ops = {}
    /\ gToast = "none"
    /\ selectedRepo = NoRepo
    /\ repoInfo = NoRepo
    /\ loading = FALSE
    /\ infoReqs = [p \in Repos |-> 0]
    /\ listeners = <<>>
    /\ sinceLast = DebounceMs
    /\ burstOpen = FALSE
    /\ burstFetches = 0
    /\ numLines = <<>>
    /\ numbers = <<>>
    /\ nphase = "off"
    /\ rCommits = <<>>
    /\ connectors = <<>>
    /\ nodes = <<>>
    /\ rphase = "off"
    /\ gSettled = "none"
    /\ actionLoading = "none"
    /\ actionRepo = "none"
    /\ aToast = "none"
    /\ aSettled = "none"
    /\ message = ""
    /\ selectedPrefix = "none"
    /\ viewCommit = NoCommit
    /\ viewBefore = <<>>
    /\ initLoading = FALSE
    /\ initClosure = "none"
    /\ initFolder = "none"
    /\ initTimer = 0 - 1
    /\ initRefreshed = FALSE
    /\ checkoutRepo = "none"
    /\ initDialogs = 0
    /\ initCalls = [p \in Repos |-> 0]
    /\ pOpen = FALSE
    /\ pToken = FALSE
    /\ pLoading = FALSE
    /\ step = "form"
    /\ hasOrigin = FALSE
    /\ tokenReqs = 0
    /\ remoteReqs = 0
    /\ repoOrigin = FALSE
    /\ pubHasOrigin = FALSE
    /\ pCall = "none"
    /\ remoteName = "none"
    /\ repos = <<>>
    /\ selectedRepoId = 0
    /\ nextUuid = 0

NextDiff ==
    \/ Parse
    \/ ComputeStats

SpecDiff == InitDiff /\ [][NextDiff]_vars

\* one build of a commit list
InitBuild ==
    /\ refList \in Histories(MaxCommits)
    /\ otherList \in {<<>>}
    /\ commitList = <<>>
    /\ lanes = <<>>
    /\ nextColor = 0
    /\ row = 0
    /\ columns = <<>>
    /\ colors = <<>>
    /\ bphase = "idle"
    /\ buildNo = 0
    /\ buildsLeft = 1
    /\ firstResult = <<>>
    /\ srcLines = <<>>
    /\ diffText = <<>>
    /\ files = <<>>
    /\ stats = <<>>
    /\ fileViewStats = [added |-> 0, removed |-> 0]
    /\ dphase = "off"
    /\ gRepoPath = NoRepo
    /\ gCommits = "none"
    /\ gLoading = FALSE
    /\ gError = FALSE
    /\ graphReqs = [p \in Repos |-> 0]
    /\ selectedCommit = NoCommit
    /\ commitDiff = EmptyDiff
    /\ diffLoading = FALSE
    /\ diffReqs = [k \in Repos \X Commits |-> 0]
    /\ ops = {}
    /\ gToast = "none"
    /\ selectedRepo = NoRepo
    /\ repoInfo = NoRepo
    /\ loading = FALSE
    /\ infoReqs = [p \in Repos |-> 0]
    /\ listeners = <<>>
    /\ sinceLast = DebounceMs
    /\ burstOpen = FALSE
    /\ burstFetches = 0
    /\ numLines = <<>>
    /\ numbers = <<>>
    /\ nphase = "off"
    /\ rCommits = <<>>
    /\ connectors = <<>>
    /\ nodes = <<>>
    /\ rphase = "off"
    /\ gSettled = "none"
    /\ actionLoading = "none"
    /\ actionRepo = "none"
    /\ aToast = "none"
    /\ aSettled = "none"
    /\ message = ""
    /\ selectedPrefix = "none"
    /\ viewCommit = NoCommit
    /\ viewBefore = <<>>
    /\ initLoading = FALSE
    /\ initClosure = "none"
    /\ initFolder = "none"
    /\ initTimer = 0 - 1
    /\ initRefreshed = FALSE
    /\ checkoutRepo = "none"
    /\ initDialogs = 0
    /\ initCalls = [p \in Repos |-> 0]
    /\ pOpen = FALSE
    /\ pToken = FALSE
    /\ pLoading = FALSE
    /\ step = "form"
    /\ hasOrigin = FALSE
    /\ tokenReqs = 0
    /\ remoteReqs = 0
    /\ repoOrigin = FALSE
    /\ pubHasOrigin = FALSE
    /\ pCall = "none"
    /\ remoteName = "none"
    /\ repos = <<>>
    /\ selectedRepoId = 0
    /\ nextUuid = 0

NextBuild ==
    \/ StartBuild
    \/ BuildStep
    \/ BuildFinish

SpecBuild == InitBuild /\ [][NextBuild]_vars

\* a list built, another list built, the first list built again
InitRebuild ==
    /\ refList \in Histories(MaxRebuildCommits)
    /\ otherList \in Histories(MaxBetweenCommits)
    /\ commitList = <<>>
    /\ lanes = <<>>
    /\ nextColor = 0
    /\ row = 0
    /\ columns = <<>>
    /\ colors = <<>>
    /\ bphase = "idle"
    /\ buildNo = 0
    /\ buildsLeft = 3
    /\ firstResult = <<>>
    /\ srcLines = <<>>
    /\ diffText = <<>>
    /\ files = <<>>
    /\ stats = <<>>
    /\ fileViewStats = [added |-> 0, removed |-> 0]
    /\ dphase = "off"
    /\ gRepoPath = NoRepo
    /\ gCommits = "none"
    /\ gLoading = FALSE
    /\ gError = FALSE
    /\ graphReqs = [p \in Repos |-> 0]
    /\ selectedCommit = NoCommit
    /\ commitDiff = EmptyDiff
    /\ diffLoading = FALSE
    /\ diffReqs = [k \in Repos \X Commits |-> 0]
    /\ ops = {}
    /\ gToast = "none"
    /\ selectedRepo = NoRepo
    /\ repoInfo = NoRepo
    /\ loading = FALSE
    /\ infoReqs = [p \in Repos |-> 0]
    /\ listeners = <<>>
    /\ sinceLast = DebounceMs
    /\ burstOpen = FALSE
    /\ burstFetches = 0
    /\ numLines = <<>>
    /\ numbers = <<>>
    /\ nphase = "off"
    /\ rCommits = <<>>
    /\ connectors = <<>>
    /\ nodes = <<>>
    /\ rphase = "off"
    /\ gSettled = "none"
    /\ actionLoading = "none"
    /\ actionRepo = "none"
    /\ aToast = "none"
    /\ aSettled = "none"
    /\ message = ""
    /\ selectedPrefix = "none"
    /\ viewCommit = NoCommit
    /\ viewBefore = <<>>
    /\ initLoading = FALSE
    /\ initClosure = "none"
    /\ initFolder = "none"
    /\ initTimer = 0 - 1
    /\ initRefreshed = FALSE
    /\ checkoutRepo = "none"
    /\ initDialogs = 0
    /\ initCalls = [p \in Repos |-> 0]
    /\ pOpen = FALSE
    /\ pToken = FALSE
    /\ pLoading = FALSE
    /\ step = "form"
    /\ hasOrigin = FALSE
    /\ tokenReqs = 0
    /\ remoteReqs = 0
    /\ repoOrigin = FALSE
    /\ pubHasOrigin = FALSE
    /\ pCall = "none"
    /\ remoteName = "none"
    /\ repos = <<>>
    /\ selectedRepoId = 0
    /\ nextUuid = 0

SpecRebuild == InitRebuild /\ [][NextBuild]_vars

\* BranchGraph after its mount effects: fetchGraph() was called, no commit
\* is selected
InitGraph ==
    /\ gRepoPath \in Repos
    /\ gCommits = "none"
    /\ gLoading = TRUE
    /\ gError = FALSE
    /\ graphReqs = [p \in Repos |-> IF p = gRepoPath THEN 1 ELSE 0]
    /\ selectedCommit = NoCommit
    /\ commitDiff = EmptyDiff
    /\ diffLoading = FALSE
    /\ diffReqs = [k \in Repos \X Commits |-> 0]
    /\ ops = {}
    /\ gToast = "none"
    /\ srcLines = <<>>
    /\ diffText = <<>>
    /\ files = <<>>
    /\ stats = <<>>
    /\ fileViewStats = [added |-> 0, removed |-> 0]
    /\ dphase = "off"
    /\ commitList = <<>>
    /\ lanes = <<>>
    /\ nextColor = 0
    /\ row = 0
    /\ columns = <<>>
    /\ colors = <<>>
    /\ bphase = "off"
    /\ refList = <<>>
    /\ otherList = <<>>
    /\ buildNo = 0
    /\ buildsLeft = 0
    /\ firstResult = <<>>
    /\ selectedRepo = NoRepo
    /\ repoInfo = NoRepo
    /\ loading = FALSE
    /\ infoReqs = [p \in Repos |-> 0]
    /\ listeners = <<>>
    /\ sinceLast = DebounceMs
    /\ burstOpen = FALSE
    /\ burstFetches = 0
    /\ numLines = <<>>
    /\ numbers = <<>>
    /\ nphase = "off"
    /\ rCommits = <<>>
    /\ connectors = <<>>
    /\ nodes = <<>>
    /\ rphase = "off"
    /\ gSettled = "none"
    /\ actionLoading = "none"
    /\ actionRepo = "none"
    /\ aToast = "none"
    /\ aSettled = "none"
    /\ message = ""
    /\ selectedPrefix = "none"
    /\ viewCommit = NoCommit
    /\ viewBefore = <<>>
    /\ initLoading = FALSE
    /\ initClosure = "none"
    /\ initFolder = "none"
    /\ initTimer = 0 - 1
    /\ initRefreshed = FALSE
    /\ checkoutRepo = "none"
    /\ initDialogs = 0
    /\ initCalls = [p \in Repos |-> 0]
    /\ pOpen = FALSE
    /\ pToken = FALSE
    /\ pLoading = FALSE
    /\ step = "form"
    /\ hasOrigin = FALSE
    /\ tokenReqs = 0
    /\ remoteReqs = 0
    /\ repoOrigin = FALSE
    /\ pubHasOrigin = FALSE
    /\ pCall = "none"
    /\ remoteName = "none"
    /\ repos = <<>>
    /\ selectedRepoId = 0
    /\ nextUuid = 0

\* the user selects commits, the parent changes repoPath
NextGraphDiff ==
    \/ \E path \in Repos : GChangeRepoPath(path)
    \/ \E path \in Repos : GraphResolve(path)
    \/ \E path \in Repos : GraphReject(path)
    \/ \E hash \in Commits : ClickCommit(hash)
    \/ \E path \in Repos, hash \in Commits : DiffResolve(path, hash)
    \/ \E path \in Repos, hash \in Commits : DiffReject(path, hash)

SpecGraphDiff == InitGraph /\ [][NextGraphDiff]_vars

\* the user runs the mutating operations of the context menus
NextGraphOps ==
    \/ \E path \in Repos : GChangeRepoPath(path)
    \/ \E path \in Repos : GraphResolve(path)
    \/ \E path \in Repos : GraphReject(path)
    \/ \E kind \in OpKinds : StartOp(kind)
    \/ \E o \in ops : OpSucceed(o)
    \/ \E o \in ops : OpFail(o)

SpecGraphOps == InitGraph /\ [][NextGraphOps]_vars

\* The components that start mutating operations, each on its own: either
\* BranchGraph after its mount effects (fetchGraph() was called), or App
\* after a repository was selected (fetchRepoInfo() was called)
InitMutations ==
    /\ \/ /\ gRepoPath \in Repos
          /\ gLoading = TRUE
          /\ graphReqs = [p \in Repos |-> IF p = gRepoPath THEN 1 ELSE 0]
          /\ selectedRepo = NoRepo
          /\ loading = FALSE
          /\ infoReqs = [p \in Repos |-> 0]
          /\ listeners = <<>>
       \/ /\ gRepoPath = NoRepo
          /\ gLoading = FALSE
          /\ graphReqs = [p \in Repos |-> 0]
          /\ selectedRepo \in Repos
          /\ loading = TRUE
          /\ infoReqs = [p \in Repos |-> IF p = selectedRepo THEN 1 ELSE 0]
          /\ listeners = <<Listener(selectedRepo)>>
    /\ gCommits = "none"
    /\ gError = FALSE
    /\ selectedCommit = NoCommit
    /\ commitDiff = EmptyDiff
    /\ diffLoading = FALSE
    /\ diffReqs = [k \in Repos \X Commits |-> 0]
    /\ ops = {}
    /\ gToast = "none"
    /\ gSettled = "none"
    /\ repoInfo = NoRepo
    /\ sinceLast = DebounceMs
    /\ burstOpen = FALSE
    /\ burstFetches = 0
    /\ actionLoading = "none"
    /\ actionRepo = "none"
    /\ aToast = "none"
    /\ aSettled = "none"
    /\ srcLines = <<>>
    /\ diffText = <<>>
    /\ files = <<>>
    /\ stats = <<>>
    /\ fileViewStats = [added |-> 0, removed |-> 0]
    /\ dphase = "off"
    /\ commitList = <<>>
    /\ lanes = <<>>
    /\ nextColor = 0
    /\ row = 0
    /\ columns = <<>>
    /\ colors = <<>>
    /\ bphase = "off"
    /\ refList = <<>>
    /\ otherList = <<>>
    /\ buildNo = 0
    /\ buildsLeft = 0
    /\ firstResult = <<>>
    /\ numLines = <<>>
    /\ numbers = <<>>
    /\ nphase = "off"
    /\ rCommits = <<>>
    /\ connectors = <<>>
    /\ nodes = <<>>
    /\ rphase = "off"
    /\ message = ""
    /\ selectedPrefix = "none"
    /\ viewCommit = NoCommit
    /\ viewBefore = <<>>
    /\ initLoading = FALSE
    /\ initClosure = "none"
    /\ initFolder = "none"
    /\ initTimer = 0 - 1
    /\ initRefreshed = FALSE
    /\ checkoutRepo = "none"
    /\ initDialogs = 0
    /\ initCalls = [p \in Repos |-> 0]
    /\ pOpen = FALSE
    /\ pToken = FALSE
    /\ pLoading = FALSE
    /\ step = "form"
    /\ hasOrigin = FALSE
    /\ tokenReqs = 0
    /\ remoteReqs = 0
    /\ repoOrigin = FALSE
    /\ pubHasOrigin = FALSE
    /\ pCall = "none"
    /\ remoteName = "none"
    /\ repos = <<>>
    /\ selectedRepoId = 0
    /\ nextUuid = 0

NextMutations ==
    \/ \E path \in Repos : GraphResolve(path)
    \/ \E path \in Repos : GraphReject(path)
    \/ \E kind \in OpKinds : StartOp(kind)
    \/ \E o \in ops : OpSucceed(o)
    \/ \E o \in ops : OpFail(o)
    \/ \E path \in Repos : InfoResolve(path)
    \/ \E path \in Repos : InfoReject(path)
    \/ \E action \in GitActions : GitActionStart(action)
    \/ GitActionSucceed
    \/ GitActionFail

SpecMutations == InitMutations /\ [][NextMutations]_vars

\* App after its mount effects with no repository selected:
\* fetchRepoInfo() set repoInfo to null, listen() was called
InitApp ==
    /\ selectedRepo = NoRepo
    /\ repoInfo = NoRepo
    /\ loading = FALSE
    /\ infoReqs = [p \in Repos |-> 0]
    /\ listeners = <<Listener(NoRepo)>>
    /\ sinceLast = DebounceMs
    /\ burstOpen = FALSE
    /\ burstFetches = 0
    /\ srcLines = <<>>
    /\ diffText = <<>>
    /\ files = <<>>
    /\ stats = <<>>
    /\ fileViewStats = [added |-> 0, removed |-> 0]
    /\ dphase = "off"
    /\ commitList = <<>>
    /\ lanes = <<>>
    /\ nextColor = 0
    /\ row = 0
    /\ columns = <<>>
    /\ colors = <<>>
    /\ bphase = "off"
    /\ refList = <<>>
    /\ otherList = <<>>
    /\ buildNo = 0
    /\ buildsLeft = 0
    /\ firstResult = <<>>
    /\ gRepoPath = NoRepo
    /\ gCommits = "none"
    /\ gLoading = FALSE
    /\ gError = FALSE
    /\ graphReqs = [p \in Repos |-> 0]
    /\ selectedCommit = NoCommit
    /\ commitDiff = EmptyDiff
    /\ diffLoading = FALSE
    /\ diffReqs = [k \in Repos \X Commits |-> 0]
    /\ ops = {}
    /\ gToast = "none"
    /\ numLines = <<>>
    /\ numbers = <<>>
    /\ nphase = "off"
    /\ rCommits = <<>>
    /\ connectors = <<>>
    /\ nodes = <<>>
    /\ rphase = "off"
    /\ gSettled = "none"
    /\ actionLoading = "none"
    /\ actionRepo = "none"
    /\ aToast = "none"
    /\ aSettled = "none"
    /\ message = ""
    /\ selectedPrefix = "none"
    /\ viewCommit = NoCommit
    /\ viewBefore = <<>>
    /\ initLoading = FALSE
    /\ initClosure = "none"
    /\ initFolder = "none"
    /\ initTimer = 0 - 1
    /\ initRefreshed = FALSE
    /\ checkoutRepo = "none"
    /\ initDialogs = 0
    /\ initCalls = [p \in Repos |-> 0]
    /\ pOpen = FALSE
    /\ pToken = FALSE
    /\ pLoading = FALSE
    /\ step = "form"
    /\ hasOrigin = FALSE
    /\ tokenReqs = 0
    /\ remoteReqs = 0
    /\ repoOrigin = FALSE
    /\ pubHasOrigin = FALSE
    /\ pCall = "none"
    /\ remoteName = "none"
    /\ repos = <<>>
    /\ selectedRepoId = 0
    /\ nextUuid = 0

NextApp ==
    \/ \E r \in Repos \cup {NoRepo} : SelectRepo(r)
    \/ \E i \in 1..Len(listeners) : ListenRegistered(i)
    \/ \E i \in 1..Len(listeners) : ListenResolved(i)
    \/ Notify
    \/ Tick
    \/ \E i \in 1..Len(listeners) : TimerFire(i)
    \/ \E path \in Repos : InfoResolve(path)
    \/ \E path \in Repos : InfoReject(path)

SpecApp == InitApp /\ [][NextApp]_vars

\* App with the steps that the program takes by itself made fair: time
\* passes, the event loop runs a timer callback that is due, a getRepoInfo
\* call settles.  The selection changes only while at most MaxLiveStale
\* earlier effect runs can still act.
MaxLiveStale == 0

NextAppLive ==
    \/ \E r \in Repos \cup {NoRepo} :
           SelectRepo(r) /\ Len(listeners') <= MaxLiveStale + 1
    \/ \E i \in 1..Len(listeners) : ListenRegistered(i)
    \/ \E i \in 1..Len(listeners) : ListenResolved(i)
    \/ Notify
    \/ Tick
    \/ \E i \in 1..Len(listeners) : TimerFire(i)
    \/ \E path \in Repos : InfoResolve(path)

SpecAppLive ==
    /\ InitApp
    /\ [][NextAppLive]_vars
    /\ WF_vars(Tick)
    /\ WF_vars(\E i \in 1..Len(listeners) : TimerFire(i))
    /\ WF_vars(\E path \in Repos : InfoResolve(path))

\* App with its repository view: the selection, the quick actions and what
\* the user enters in the children of the view (the 'git-changed' listeners
\* take no step)
NextView ==
    \/ \E r \in Repos \cup {NoRepo} : SelectRepo(r)
    \/ \E path \in Repos : InfoResolve(path)
    \/ \E path \in Repos : InfoReject(path)
    \/ \E action \in GitActions : GitActionStart(action)
    \/ GitActionSucceed
    \/ GitActionFail
    \/ \E text \in Texts \cup {""} : TypeMessage(text)
    \/ \E prefix \in Prefixes : PickPrefix(prefix)
    \/ \E hash \in Commits : PickCommit(hash)

SpecView == InitApp /\ [][NextView]_vars

\* App with the branch menu of QuickStatus; no 'git-changed' notification
\* arrives
NextCheckout ==
    \/ \E r \in Repos \cup {NoRepo} : SelectRepo(r)
    \/ \E i \in 1..Len(listeners) : ListenRegistered(i)
    \/ \E i \in 1..Len(listeners) : ListenResolved(i)
    \/ \E path \in Repos : InfoResolve(path)
    \/ \E path \in Repos : InfoReject(path)
    \/ CheckoutStart
    \/ CheckoutSucceed
    \/ CheckoutFail

SpecCheckout == InitApp /\ [][NextCheckout]_vars

\* App with handleInitRepo; getRepoInfo calls resolve and no 'git-changed'
\* notification arrives
NextInitRepo ==
    \/ \E r \in Repos \cup {NoRepo} : SelectRepo(r)
    \/ \E i \in 1..Len(listeners) : ListenRegistered(i)
    \/ \E i \in 1..Len(listeners) : ListenResolved(i)
    \/ InitRepoStart
    \/ InitRepoAgain
    \/ InitRepoNone
    \/ \E r \in Repos : InitFolderChosen(r)
    \/ \E r \in Repos : InitRepoReject(r)
    \/ \E r \in Repos : InitRepoExisting(r)
    \/ Tick
    \/ InitTimerFire
    \/ \E path \in Repos : InfoResolve(path)

SpecInitRepo == InitApp /\ [][NextInitRepo]_vars

\* the lines of an expanded file section are rendered
InitNumber ==
    /\ numLines \in NumInputs
    /\ numbers = <<>>
    /\ nphase = "input"
    /\ rCommits = <<>>
    /\ connectors = <<>>
    /\ nodes = <<>>
    /\ rphase = "off"
    /\ srcLines = <<>>
    /\ diffText = <<>>
    /\ files = <<>>
    /\ stats = <<>>
    /\ fileViewStats = [added |-> 0, removed |-> 0]
    /\ dphase = "off"
    /\ commitList = <<>>
    /\ lanes = <<>>
    /\ nextColor = 0
    /\ row = 0
    /\ columns = <<>>
    /\ colors = <<>>
    /\ bphase = "off"
    /\ refList = <<>>
    /\ otherList = <<>>
    /\ buildNo = 0
    /\ buildsLeft = 0
    /\ firstResult = <<>>
    /\ gRepoPath = NoRepo
    /\ gCommits = "none"
    /\ gLoading = FALSE
    /\ gError = FALSE
    /\ graphReqs = [p \in Repos |-> 0]
    /\ selectedCommit = NoCommit
    /\ commitDiff = EmptyDiff
    /\ diffLoading = FALSE
    /\ diffReqs = [k \in Repos \X Commits |-> 0]
    /\ ops = {}
    /\ gToast = "none"
    /\ selectedRepo = NoRepo
    /\ repoInfo = NoRepo
    /\ loading = FALSE
    /\ infoReqs = [p \in Repos |-> 0]
    /\ listeners = <<>>
    /\ sinceLast = DebounceMs
    /\ burstOpen = FALSE
    /\ burstFetches = 0
    /\ gSettled = "none"
    /\ actionLoading = "none"
    /\ actionRepo = "none"
    /\ aToast = "none"
    /\ aSettled = "none"
    /\ message = ""
    /\ selectedPrefix = "none"
    /\ viewCommit = NoCommit
    /\ viewBefore = <<>>
    /\ initLoading = FALSE
    /\ initClosure = "none"
    /\ initFolder = "none"
    /\ initTimer = 0 - 1
    /\ initRefreshed = FALSE
    /\ checkoutRepo = "none"
    /\ initDialogs = 0
    /\ initCalls = [p \in Repos |-> 0]
    /\ pOpen = FALSE
    /\ pToken = FALSE
    /\ pLoading = FALSE
    /\ step = "form"
    /\ hasOrigin = FALSE
    /\ tokenReqs = 0
    /\ remoteReqs = 0
    /\ repoOrigin = FALSE
    /\ pubHasOrigin = FALSE
    /\ pCall = "none"
    /\ remoteName = "none"
    /\ repos = <<>>
    /\ selectedRepoId = 0
    /\ nextUuid = 0

NextNumber ==
    \/ RenderLines

SpecNumber == InitNumber /\ [][NextNumber]_vars

\* the graph of a fetched commit list is drawn
InitRender ==
    /\ numLines = <<>>
    /\ numbers = <<>>
    /\ nphase = "off"
    /\ IsDrawInput(rCommits)
    /\ connectors = <<>>
    /\ nodes = <<>>
    /\ rphase = "input"
    /\ srcLines = <<>>
    /\ diffText = <<>>
    /\ files = <<>>
    /\ stats = <<>>
    /\ fileViewStats = [added |-> 0, removed |-> 0]
    /\ dphase = "off"
    /\ commitList = <<>>
    /\ lanes = <<>>
    /\ nextColor = 0
    /\ row = 0
    /\ columns = <<>>
    /\ colors = <<>>
    /\ bphase = "off"
    /\ refList = <<>>
    /\ otherList = <<>>
    /\ buildNo = 0
    /\ buildsLeft = 0
    /\ firstResult = <<>>
    /\ gRepoPath = NoRepo
    /\ gCommits = "none"
    /\ gLoading = FALSE
    /\ gError = FALSE
    /\ graphReqs = [p \in Repos |-> 0]
    /\ selectedCommit = NoCommit
    /\ commitDiff = EmptyDiff
    /\ diffLoading = FALSE
    /\ diffReqs = [k \in Repos \X Commits |-> 0]
    /\ ops = {}
    /\ gToast = "none"
    /\ selectedRepo = NoRepo
    /\ repoInfo = NoRepo
    /\ loading = FALSE
    /\ infoReqs = [p \in Repos |-> 0]
    /\ listeners = <<>>
    /\ sinceLast = DebounceMs
    /\ burstOpen = FALSE
    /\ burstFetches = 0
    /\ gSettled = "none"
    /\ actionLoading = "none"
    /\ actionRepo = "none"
    /\ aToast = "none"
    /\ aSettled = "none"
    /\ message = ""
    /\ selectedPrefix = "none"
    /\ viewCommit = NoCommit
    /\ viewBefore = <<>>
    /\ initLoading = FALSE
    /\ initClosure = "none"
    /\ initFolder = "none"
    /\ initTimer = 0 - 1
    /\ initRefreshed = FALSE
    /\ checkoutRepo = "none"
    /\ initDialogs = 0
    /\ initCalls = [p \in Repos |-> 0]
    /\ pOpen = FALSE
    /\ pToken = FALSE
    /\ pLoading = FALSE
    /\ step = "form"
    /\ hasOrigin = FALSE
    /\ tokenReqs = 0
    /\ remoteReqs = 0
    /\ repoOrigin = FALSE
    /\ pubHasOrigin = FALSE
    /\ pCall = "none"
    /\ remoteName = "none"
    /\ repos = <<>>
    /\ selectedRepoId = 0
    /\ nextUuid = 0

NextRender ==
    \/ DrawGraph

SpecRender == InitRender /\ [][NextRender]_vars

(***************************************************************************)
(* Properties of the diff sectioniser                                      *)
(***************************************************************************)
\* The positions of the boundary lines among the lines the text was
\* assembled from, and the extent of the k-th section.
BoundaryIdx ==
    { i \in 1..Len(srcLines) : StartsWith(srcLines[i], S_DIFF_GIT) }

NthBoundary(k) ==
    CHOOSE i \in BoundaryIdx :
        Cardinality({ j \in BoundaryIdx : j <= i }) = k

SectionEnd(k) ==
    IF k < Cardinality(BoundaryIdx) THEN NthBoundary(k + 1) - 1
    ELSE Len(srcLines)

\* C8: parseDiffByFile returns one section per input line beginning with
\* 'diff --git', in input order; the lines of a section are exactly the
\* input lines between its boundary line and the next one (or the end of the
\* text), in order, without the boundary line; the lines before the first
\* boundary line are in no section.
C8_SectionsFollowBoundaries ==
    dphase # "input" =>
        /\ Len(files) = Cardinality(BoundaryIdx)
        /\ \A k \in 1..Len(files) :
               files[k].lines = SubSeq(srcLines, NthBoundary(k) + 1, SectionEnd(k))

\* C8 witness: a parsed text that starts with a line outside every section,
\* followed by a section that holds a line.
C8_Witness ==
    /\ dphase = "parsed"
    /\ Len(srcLines) = MaxLines
    /\ ~StartsWith(srcLines[1], S_DIFF_GIT)
    /\ Len(files) = 1
    /\ Len(files[1].lines) = 1

NoBoundaryLine == \A i \in 1..Len(srcLines) : ~StartsWith(srcLines[i], S_DIFF_GIT)

\* C11: parsing never fails: for the empty string and for every text with
\* no line beginning with 'diff --git', parseDiffByFile returns the empty
\* file list.
C11_NoBoundaryGivesNoFiles ==
    (dphase # "input" /\ NoBoundaryLine) => files = <<>>

\* C11 witness: a text of the maximal length was parsed that has a line
\* containing, but not beginning with, 'diff --git' and a content line, and
\* the result is the empty list.
C11_Witness ==
    /\ dphase = "parsed"
    /\ Len(srcLines) = MaxLines
    /\ NoBoundaryLine
    /\ \E i \in 1..Len(srcLines) : srcLines[i] = L_NOT_HEADER
    /\ \E i \in 1..Len(srcLines) : srcLines[i] = L_ADD
    /\ files = <<>>

\* The '---' / '+++' file-marker lines of a section: the lines with that
\* prefix in the section's header, before its first hunk header.
IsFileMarker(lines, i) ==
    /\ StartsWith(lines[i], S_MINUS3) \/ StartsWith(lines[i], S_PLUS3)
    /\ \A j \in 1..(i - 1) : ~StartsWith(lines[j], S_AT2)

ExpectedStats(lines) ==
    [ added |-> Cardinality({ i \in 1..Len(lines) :
                    StartsWith(lines[i], S_PLUS) /\ ~IsFileMarker(lines, i) }),
      removed |-> Cardinality({ i \in 1..Len(lines) :
                    StartsWith(lines[i], S_MINUS) /\ ~IsFileMarker(lines, i) }) ]

\* C9: getDiffStats counts as added every line starting with '+' and as
\* removed every line starting with '-', leaving out the '+++' and '---'
\* file-marker lines, the same way in the commit-diff view and in the
\* file-status view; the one-file example with '-bar' and '+foo' yields one
\* file named x with added = 1 and removed = 1.
C9_StatsCountContentLines ==
    dphase = "stats" =>
        /\ \A k \in 1..Len(files) : stats[k] = ExpectedStats(files[k].lines)
        /\ fileViewStats = ExpectedStats(srcLines)
        /\ srcLines = ExampleLines =>
               /\ Len(files) = 1
               /\ files[1].name = P_X
               /\ stats[1] = [added |-> 1, removed |-> 1]

\* C10: the name of a section is the destination path <q> of its boundary
\* line 'diff --git a/<p> b/<q>'; a boundary line that is not of that shape
\* gives the raw line as the name, and the section is still produced.
C10_NameIsDestinationPath ==
    dphase # "input" =>
        /\ Len(files) = Cardinality(BoundaryIdx)
        /\ \A k \in 1..Len(files) :
               LET line == srcLines[NthBoundary(k)] IN
               /\ \A p \in Paths, q \in Paths :
                      line = Header(p, q) => files[k].name = q
               /\ (\A p \in Paths, q \in Paths : line # Header(p, q))
                      => files[k].name = line

(***************************************************************************)
(* Properties of the commit-graph layout                                   *)
(***************************************************************************)
Rows == 1..Len(commitList)

Placed(h) == h \in 1..row

MergeRows == { i \in Rows : Len(commitList[i].parents) = 2 }

TheMerge == CHOOSE m \in MergeRows : TRUE

\* an earlier row than m names h as a parent, so that h holds a reserved
\* lane when row m is placed
ReservedBefore(m, h) ==
    \E i \in 1..(m - 1) : \E j \in 1..Len(commitList[i].parents) :
        commitList[i].parents[j] = h

\* the first parent p of the placed merge row m is in m's column: its row
\* has that column, or the slot of that column is reserved for it
FirstParentInOwnColumn(m, p) ==
    IF Placed(p) THEN columns[p] = columns[m]
    ELSE /\ columns[m] + 1 <= Len(lanes)
         /\ lanes[columns[m] + 1].hash = p

\* the second parent q of the placed merge row m has a column of its own,
\* used by no earlier row, kept until q's row takes it
SecondParentInNewColumn(m, q) ==
    IF Placed(q)
    THEN /\ columns[q] # columns[m]
         /\ \A r \in 1..(q - 1) : columns[r] # columns[q]
    ELSE \E k \in 1..Len(lanes) :
             /\ lanes[k].hash = q
             /\ k - 1 # columns[m]
             /\ \A r \in 1..row : columns[r] # k - 1

ExampleColumns ==
    (commitList = MergeExample /\ bphase = "built") => columns = <<0, 0, 0, 1>>

\* C5 (as claimed): in every history with a single two-parent merge commit
\* the pass puts the merge's first parent in the merge's own column and its
\* second parent in a distinct column not used before, kept until the
\* reserved lane is consumed; the list c3(c2), c2(c1, c0), c1, c0 gives
\* c3, c2, c1 in column 0 and c0 in column 1.
C5_MergeParentsAsClaimed ==
    /\ (Cardinality(MergeRows) = 1 /\ Placed(TheMerge)) =>
           /\ FirstParentInOwnColumn(TheMerge, commitList[TheMerge].parents[1])
           /\ SecondParentInNewColumn(TheMerge, commitList[TheMerge].parents[2])
    /\ ExampleColumns

\* C5 (amended): the same, for each parent of the merge commit that no
\* earlier row of the list names as a parent; a parent that an earlier row
\* names keeps the lane reserved for it there.
C5_MergeParentsUnlessReserved ==
    /\ (Cardinality(MergeRows) = 1 /\ Placed(TheMerge)) =>
           LET m == TheMerge
               p == commitList[m].parents[1]
               q == commitList[m].parents[2]
           IN /\ ~ReservedBefore(m, p) => FirstParentInOwnColumn(m, p)
              /\ ~ReservedBefore(m, q) => SecondParentInNewColumn(m, q)
    /\ ExampleColumns

\* C5 witness: the example list is built, the merge's first parent is in
\* the merge's column 0 and its second parent in the new column 1.
C5_Witness ==
    /\ commitList = MergeExample
    /\ bphase = "built"
    /\ columns[3] = columns[2]
    /\ columns[4] = 1

AtMostOneParent == \A i \in Rows : Len(commitList[i].parents) <= 1

\* every row but the last has the next row as its only parent
IsChain == \A i \in Rows : i < Len(commitList) => commitList[i].parents = <<i + 1>>

\* C6 (as claimed): when every commit of the list has at most one parent,
\* every row gets column 0.
C6_OneParentMeansColumnZero ==
    AtMostOneParent => \A r \in 1..row : columns[r] = 0

\* C6 (amended): when every commit has at most one parent and every row
\* after the first is the parent of the row before it (one chain), every row
\* gets column 0.
C6_ChainMeansColumnZero ==
    (AtMostOneParent /\ IsChain) => \A r \in 1..row : columns[r] = 0

\* C6 witness: a chain of the maximal length is built, its last commit
\* having a parent beyond the list.
C6_Witness ==
    /\ bphase = "built"
    /\ Len(commitList) = MaxCommits
    /\ AtMostOneParent
    /\ IsChain
    /\ Len(commitList[MaxCommits].parents) = 1
    /\ \A r \in Rows : columns[r] = 0

C2_StaleDiffNeverApplied ==
    ~diffLoading =>
        \/ commitDiff = EmptyDiff
        \/ /\ selectedCommit # NoCommit
           /\ commitDiff = DiffOf(gRepoPath, selectedCommit)

\* C4: every mutating operation of the commit-graph view whose backend call
\* succeeds issues a re-fetch of the commit list (a getGraphLog call).
C4_SuccessRefetchesCommitList ==
    [][\A o \in ops :
          (ops' = ops \ {o} /\ gToast' = "success")
              => graphReqs'[o.path] = graphReqs[o.path] + 1]_vars

(***************************************************************************)
(* Properties of App                                                       *)
(***************************************************************************)
NoInfoRequestInFlight == \A p \in Repos : infoReqs[p] = 0

\* C1: the result of a getRepoInfo call started for a previously selected
\* repository is never applied: whenever no request is in flight, repoInfo
\* is null or the info of the selected repository.
C1_StaleInfoNeverApplied ==
    NoInfoRequestInFlight => (repoInfo = NoRepo \/ repoInfo = selectedRepo)

\* C3: while one repository stays selected, a burst of notifications, each
\* less than DebounceMs after the one before, makes the timers call
\* fetchRepoInfo once, and only when DebounceMs have passed since the last
\* notification of the burst.
C3_BurstGivesOneFetchAfterDelay ==
    (selectedRepo # NoRepo /\ burstOpen) =>
        /\ burstFetches <= 1
        /\ burstFetches = 1 => sinceLast >= DebounceMs

(***************************************************************************)
(* Properties of the rendering of a file section                           *)
(***************************************************************************)
IsHunkHeader(line) == HunkMatch(line) # <<>>

FirstHunk(lines) ==
    IF \E i \in 1..Len(lines) : IsHunkHeader(lines[i])
    THEN CHOOSE i \in 1..Len(lines) :
             /\ IsHunkHeader(lines[i])
             /\ \A j \in 1..(i - 1) : ~IsHunkHeader(lines[j])
    ELSE Len(lines) + 1

\* the hunk header that governs line i, and the content lines between them
HunkOf(lines, i) ==
    CHOOSE h \in 1..(i - 1) :
        /\ IsHunkHeader(lines[h])
        /\ \A j \in (h + 1)..(i - 1) : ~IsHunkHeader(lines[j])

OldBefore(lines, i) ==
    Cardinality({ j \in (HunkOf(lines, i) + 1)..(i - 1) : ~StartsWith(lines[j], S_PLUS) })

NewBefore(lines, i) ==
    Cardinality({ j \in (HunkOf(lines, i) + 1)..(i - 1) : ~StartsWith(lines[j], S_MINUS) })

\* what the content line i shows: an added line its new number, a removed
\* line its old number, a context line both
NumbersFromHunk(lines, i) ==
    LET m == HunkMatch(lines[HunkOf(lines, i)])[1]
        o == m.old + OldBefore(lines, i)
        n == m.new + NewBefore(lines, i)
    IN IF StartsWith(lines[i], S_PLUS) THEN [old |-> NoNum, new |-> n]
       ELSE IF StartsWith(lines[i], S_MINUS) THEN [old |-> o, new |-> NoNum]
       ELSE [old |-> o, new |-> n]

\* after the first hunk header a section holds hunk headers and added,
\* removed and context lines only
IsHunkBody(lines) ==
    \A i \in (FirstHunk(lines) + 1)..Len(lines) :
        \/ IsHunkHeader(lines[i])
        \/ StartsWith(lines[i], S_PLUS)
        \/ StartsWith(lines[i], S_MINUS)
        \/ StartsWith(lines[i], <<" ">>)

\* C12: a hunk header '@@ -a,b +c,d @@' sets the old-line counter to a and
\* the new-line counter to c, and every following content line is numbered
\* from them: an added line shows and advances only the new number, a
\* removed line only the old number, a context line both.
C12_ContentLinesNumberedFromHunk ==
    (nphase = "rendered" /\ IsHunkBody(numLines)) =>
        \A i \in (FirstHunk(numLines) + 1)..Len(numLines) :
            ~IsHunkHeader(numLines[i]) =>
                numbers[i] = NumbersFromHunk(numLines, i)

(***************************************************************************)
(* Properties of the drawing of the graph                                  *)
(***************************************************************************)
DrawnRows == 1..Len(rCommits)

\* the hash is the hash of a commit of the fetched list
InList(h) == \E r \in DrawnRows : rCommits[r].hash = h

\* the connectors drawn from row i to the commit with hash h
ConnectorsTo(i, h) ==
    { k \in 1..Len(connectors) :
        /\ connectors[k].from = i
        /\ rCommits[connectors[k].to].hash = h }

\* C13: renderConnections draws exactly one connector for each (commit,
\* parent) pair whose parent hash is in the fetched list and none for a
\* parent hash that is absent from it.
C13_OneConnectorPerPresentParent ==
    rphase = "drawn" =>
        /\ \A i \in DrawnRows : \A j \in 1..Len(rCommits[i].parents) :
               LET h == rCommits[i].parents[j] IN
               IF InList(h) THEN Cardinality(ConnectorsTo(i, h)) = 1
               ELSE \A k \in 1..Len(connectors) : connectors[k].from # i
                       \/ rCommits[connectors[k].to].hash # h
        /\ \A k \in 1..Len(connectors) :
               /\ connectors[k].from \in DrawnRows
               /\ connectors[k].to \in DrawnRows
               /\ \E j \in 1..Len(rCommits[connectors[k].from].parents) :
                      rCommits[connectors[k].from].parents[j]
                          = rCommits[connectors[k].to].hash

\* C13 witness: a drawn list of the maximal length whose first commit is a
\* merge commit with its first parent cut off and its second parent in the
\* list: one connector is drawn.
C13_Witness ==
    /\ rphase = "drawn"
    /\ Len(rCommits) = MaxDrawCommits
    /\ Len(rCommits[1].parents) = 2
    /\ ~InList(rCommits[1].parents[1])
    /\ InList(rCommits[1].parents[2])
    /\ Len(connectors) = 1

\* C17: the node, the hash label and the outgoing connectors of a commit are
\* drawn in palette colour number (color mod PaletteSize), which lies in
\* 0..PaletteSize-1; color numbers that differ by a multiple of PaletteSize
\* are drawn in the same colour.
C17_ColourIsColorModPalette ==
    rphase = "drawn" =>
        /\ \A r \in DrawnRows :
               /\ nodes[r].color \in 0..(PaletteSize - 1)
               /\ (rCommits[r].color - nodes[r].color) % PaletteSize = 0
               /\ nodes[r].label = nodes[r].color
               /\ \A k \in 1..Len(connectors) :
                      connectors[k].from = r => connectors[k].color = nodes[r].color
        /\ \A r1 \in DrawnRows, r2 \in DrawnRows :
               (rCommits[r1].color - rCommits[r2].color) % PaletteSize = 0
                   => nodes[r1].color = nodes[r2].color

\* C17 witness: two drawn commits whose color numbers differ by PaletteSize,
\* one of them beyond the palette, joined by a connector.
C17_Witness ==
    /\ rphase = "drawn"
    /\ Len(rCommits) = MaxDrawCommits
    /\ rCommits[1].color = rCommits[2].color + PaletteSize
    /\ nodes[1].color = nodes[2].color
    /\ Len(connectors) = 1
    /\ connectors[1].color = nodes[1].color

(***************************************************************************)
(* Properties of the mutating operations                                   *)
(***************************************************************************)
\* C14: when the backend call of a mutating operation fails, the handler
\* shows an error toast and no success toast and triggers no re-fetch; the
\* displayed commit list and repository info stay as they were.  This holds
\* for the context-menu handlers of BranchGraph and for handleGitAction.
C14_FailureOnlyShowsError ==
    [][/\ \A o \in ops :
             (ops' = ops \ {o} /\ gSettled' = "rejected")
                 => /\ gToast' = "error"
                    /\ UNCHANGED <<gCommits, gLoading, gError, graphReqs>>
                    /\ UNCHANGED <<repoInfo, loading, infoReqs, aToast>>
       /\ (actionLoading # NoAction /\ actionLoading' = NoAction
              /\ aSettled' = "rejected")
             => /\ aToast' = "error"
                /\ UNCHANGED <<repoInfo, loading, infoReqs>>
                /\ UNCHANGED <<gCommits, gLoading, gError, graphReqs, gToast>>]_vars

\* C14 witness: a context-menu operation has failed while the commit list
\* was shown: the error toast is up, the list is still shown and no
\* getGraphLog call is in flight.
C14_Witness ==
    /\ gSettled = "rejected"
    /\ gToast = "error"
    /\ ListShown
    /\ \A p \in Repos : graphReqs[p] = 0
    /\ ops = {}

\* the operation of a context-menu handler on the repository that is shown
OpOf(kind) == [kind |-> kind, path |-> gRepoPath]

\* C15: the context-menu handlers are not serialized: while the commit list
\* is shown a handler can start its backend call whatever other operations
\* on the same repository path are in flight (no lock, no queue).
C15_OperationsNotSerialized ==
    \A kind \in OpKinds :
        (ListShown /\ Cardinality(ops) < MaxOps /\ OpOf(kind) \notin ops)
            => ENABLED StartOp(kind)

\* C15 witness: a checkout and a reset on the same repository path are in
\* flight at the same time.
C15_Witness ==
    /\ gRepoPath \in Repos
    /\ OpOf("checkout_commit") \in ops
    /\ OpOf("reset_to_commit") \in ops

(***************************************************************************)
(* Properties of the debounce effect                                       *)
(***************************************************************************)
\* debounceTimer of the effect run of the current selection (the last
\* listener is the one whose cleanup has not run)
LiveTimer ==
    IF listeners # <<>> /\ listeners[Len(listeners)].live
    THEN listeners[Len(listeners)].timer
    ELSE NoTimer

C20_NoFetchFromPreviousSelection ==
    [][\A i \in 1..Len(listeners) :
          ~listeners[i].live => ~TimerFire(i)]_vars

(***************************************************************************)
(* Properties of the repository view of App                                *)
(***************************************************************************)
\* C18: a refresh of the repository info while the same repository stays
\* selected leaves what the user entered in the children unchanged: when the
\* repository view is rendered again after the refresh, the message and the
\* prefix of InlineCommit and the selected commit of the graph are what they
\* were when the refresh started.
C18_RefreshKeepsChildState ==
    [][(~RepoViewShown /\ RepoViewShown' /\ viewBefore # NoView)
          => <<message', selectedPrefix', viewCommit'>> = viewBefore]_vars

\* C19: handleInitRepo on a listed folder selects that repository and then
\* refreshes its info: once the delayed refresh has run and no getRepoInfo
\* call is in flight, repoInfo is the info of the initialized folder, as long
\* as that folder is the selected repository.
C19_InitRefreshesInitializedFolder ==
    (/\ initRefreshed
     /\ initFolder # NoRepo
     /\ selectedRepo = initFolder
     /\ NoInfoRequestInFlight)
        => repoInfo = initFolder

\* C21: loading is true whenever at least one getRepoInfo call of
\* fetchRepoInfo is in flight, also when two refreshes overlap.
C21_LoadingWhileRequestInFlight ==
    ~NoInfoRequestInFlight => loading

\* C22: handleInitRepo never runs twice at the same time: at most one run
\* is past the guard (at its folder dialog or at its initRepo call), a click
\* while a run is in progress starts nothing, and initLoading is false when
\* no run is in progress.
C22_InitRunsOneAtATime ==
    /\ InitRuns <= 1
    /\ InitRuns = 0 => ~initLoading
    /\ initLoading => ~ENABLED InitRepoStart

\* an initRepo call is in flight and a further click returns at the guard
C22_Witness ==
    /\ initLoading
    /\ \E r \in Repos : initCalls[r] = 1
    /\ ENABLED InitRepoAgain

(***************************************************************************)
(* PublishToGitHub: the dialog, its checks on opening and handlePublish.   *)
(* The repository either has a remote named 'origin' or not; a successful  *)
(* addRemote under the name 'origin' gives it one.                         *)
(***************************************************************************)
MaxPublishReqs == 2

Steps == {"form", "creating", "adding-remote", "pushing", "done", "error"}

Names == {"", "repo"}

\* the effect of [open, repoName] with open set: checkToken(),
\* checkRemotes(), setStep('form')
OpenEffect ==
    /\ tokenReqs' = tokenReqs + 1
    /\ remoteReqs' = remoteReqs + 1
    /\ step' = "form"

\* <Dialog open={open} onOpenChange={setOpen}>: the trigger button opens the
\* dialog; Escape, a click outside and the close icon close it
PublishOpenChange(isOpen) ==
    /\ isOpen # pOpen
    /\ pOpen' = isOpen
    /\ IF isOpen
       THEN /\ tokenReqs < MaxPublishReqs
            /\ remoteReqs < MaxPublishReqs
            /\ OpenEffect
       ELSE UNCHANGED <<tokenReqs, remoteReqs, step>>
    /\ UNCHANGED <<pToken, pLoading, hasOrigin, repoOrigin, pubHasOrigin,
                   pCall, remoteName>>
    /\ PublishFrame

\* a close button of the footer is rendered
CloseButtonShown ==
    \/ ~pToken
    \/ step \in {"form", "done", "error"}

\* handleClose: if (!loading) setOpen(false)
HandleClose ==
    /\ pOpen
    /\ CloseButtonShown
    /\ pOpen' = IF ~pLoading THEN FALSE ELSE pOpen
    /\ UNCHANGED <<pToken, pLoading, step, hasOrigin, tokenReqs, remoteReqs,
                   repoOrigin, pubHasOrigin, pCall, remoteName>>
    /\ PublishFrame

\* getGitHubToken resolves: setToken(savedToken)
TokenResolve(saved) ==
    /\ tokenReqs > 0
    /\ tokenReqs' = tokenReqs - 1
    /\ pToken' = saved
    /\ UNCHANGED <<pOpen, pLoading, step, hasOrigin, remoteReqs, repoOrigin,
                   pubHasOrigin, pCall, remoteName>>
    /\ PublishFrame

\* getRemotes resolves: setHasOrigin(remotes.some(r => r.name === 'origin'))
RemotesResolve ==
    /\ remoteReqs > 0
    /\ remoteReqs' = remoteReqs - 1
    /\ hasOrigin' = repoOrigin
    /\ UNCHANGED <<pOpen, pToken, pLoading, step, tokenReqs, repoOrigin,
                   pubHasOrigin, pCall, remoteName>>
    /\ PublishFrame

\* getRemotes rejects: setHasOrigin(false)
RemotesReject ==
    /\ remoteReqs > 0
    /\ remoteReqs' = remoteReqs - 1
    /\ hasOrigin' = FALSE
    /\ UNCHANGED <<pOpen, pToken, pLoading, step, tokenReqs, repoOrigin,
                   pubHasOrigin, pCall, remoteName>>
    /\ PublishFrame

\* the publish button is rendered and enabled
PublishButtonEnabled == pOpen /\ pToken /\ step = "form" /\ ~pLoading

\* const remoteName = hasOrigin ? 'github' : 'origin'
RemoteNameFor(origin) == IF origin THEN "github" ELSE "origin"

\* handlePublish up to its first await: with an empty name toast.error and
\* return, else setLoading(true), setStep('creating'), createGitHubRepo
PublishStart(name) ==
    /\ PublishButtonEnabled
    /\ IF name = ""
       THEN UNCHANGED <<pLoading, step, pCall, pubHasOrigin>>
       ELSE /\ pLoading' = TRUE
            /\ step' = "creating"
            /\ pCall' = "createGitHubRepo"
            /\ pubHasOrigin' = hasOrigin
    /\ UNCHANGED <<pOpen, pToken, hasOrigin, tokenReqs, remoteReqs, repoOrigin,
                   remoteName>>
    /\ PublishFrame

\* createGitHubRepo resolves: setStep('adding-remote'), addRemote
CreateResolve ==
    /\ pCall = "createGitHubRepo"
    /\ step' = "adding-remote"
    /\ remoteName' = RemoteNameFor(pubHasOrigin)
    /\ pCall' = "addRemote"
    /\ UNCHANGED <<pOpen, pToken, pLoading, hasOrigin, tokenReqs, remoteReqs,
                   repoOrigin, pubHasOrigin>>
    /\ PublishFrame

\* addRemote resolves: setStep('pushing'), push
AddRemoteResolve ==
    /\ pCall = "addRemote"
    /\ step' = "pushing"
    /\ pCall' = "push"
    /\ repoOrigin' = (repoOrigin \/ remoteName = "origin")
    /\ UNCHANGED <<pOpen, pToken, pLoading, hasOrigin, tokenReqs, remoteReqs,
                   pubHasOrigin, remoteName>>
    /\ PublishFrame

\* push resolves: setStep('done'), toast.success, finally setLoading(false)
PushResolve ==
    /\ pCall = "push"
    /\ step' = "done"
    /\ pCall' = "none"
    /\ pLoading' = FALSE
    /\ UNCHANGED <<pOpen, pToken, hasOrigin, tokenReqs, remoteReqs, repoOrigin,
                   pubHasOrigin, remoteName>>
    /\ PublishFrame

\* the call in flight rejects: setStep('error'), finally setLoading(false)
PublishReject ==
    /\ pCall # "none"
    /\ step' = "error"
    /\ pCall' = "none"
    /\ pLoading' = FALSE
    /\ UNCHANGED <<pOpen, pToken, hasOrigin, tokenReqs, remoteReqs, repoOrigin,
                   pubHasOrigin, remoteName>>
    /\ PublishFrame

\* the component after its mount with the dialog closed
InitPublish ==
    /\ srcLines = <<>>
    /\ diffText = <<>>
    /\ files = <<>>
    /\ stats = <<>>
    /\ fileViewStats = [added |-> 0, removed |-> 0]
    /\ dphase = "off"
    /\ commitList = <<>>
    /\ lanes = <<>>
    /\ nextColor = 0
    /\ row = 0
    /\ columns = <<>>
    /\ colors = <<>>
    /\ bphase = "off"
    /\ refList = <<>>
    /\ otherList = <<>>
    /\ buildNo = 0
    /\ buildsLeft = 0
    /\ firstResult = <<>>
    /\ gRepoPath = NoRepo
    /\ gCommits = "none"
    /\ gLoading = FALSE
    /\ gError = FALSE
    /\ graphReqs = [p \in Repos |-> 0]
    /\ selectedCommit = NoCommit
    /\ commitDiff = EmptyDiff
    /\ diffLoading = FALSE
    /\ diffReqs = [k \in Repos \X Commits |-> 0]
    /\ ops = {}
    /\ gToast = "none"
    /\ selectedRepo = NoRepo
    /\ repoInfo = NoRepo
    /\ loading = FALSE
    /\ infoReqs = [p \in Repos |-> 0]
    /\ listeners = <<>>
    /\ sinceLast = DebounceMs
    /\ burstOpen = FALSE
    /\ burstFetches = 0
    /\ numLines = <<>>
    /\ numbers = <<>>
    /\ nphase = "off"
    /\ rCommits = <<>>
    /\ connectors = <<>>
    /\ nodes = <<>>
    /\ rphase = "off"
    /\ gSettled = "none"
    /\ actionLoading = "none"
    /\ actionRepo = "none"
    /\ aToast = "none"
    /\ aSettled = "none"
    /\ message = ""
    /\ selectedPrefix = "none"
    /\ viewCommit = NoCommit
    /\ viewBefore = <<>>
    /\ initLoading = FALSE
    /\ initClosure = "none"
    /\ initFolder = "none"
    /\ initTimer = 0 - 1
    /\ initRefreshed = FALSE
    /\ checkoutRepo = "none"
    /\ initDialogs = 0
    /\ initCalls = [p \in Repos |-> 0]
    /\ pOpen = FALSE
    /\ pToken = FALSE
    /\ pLoading = FALSE
    /\ step = "form"
    /\ hasOrigin = FALSE
    /\ tokenReqs = 0
    /\ remoteReqs = 0
    /\ repoOrigin \in BOOLEAN
    /\ pubHasOrigin = FALSE
    /\ pCall = "none"
    /\ remoteName = "none"
    /\ repos = <<>>
    /\ selectedRepoId = 0
    /\ nextUuid = 0

NextPublish ==
    \/ \E isOpen \in BOOLEAN : PublishOpenChange(isOpen)
    \/ HandleClose
    \/ \E saved \in BOOLEAN : TokenResolve(saved)
    \/ RemotesResolve
    \/ RemotesReject
    \/ \E name \in Names : PublishStart(name)
    \/ CreateResolve
    \/ AddRemoteResolve
    \/ PushResolve
    \/ PublishReject

SpecPublish == InitPublish /\ [][NextPublish]_vars

\* C23: when handlePublish issues addRemote, the name is 'github' if the
\* repository has a remote named 'origin' at that time and 'origin' if not,
\* whenever publish was pressed after the dialog opened.
C23_RemoteNameFollowsOrigin ==
    [][(pCall = "createGitHubRepo" /\ pCall' = "addRemote")
          => remoteName' = (IF repoOrigin THEN "github" ELSE "origin")]_vars

StepOrder ==
    {<<"form", "creating">>, <<"creating", "adding-remote">>,
     <<"adding-remote", "pushing">>, <<"pushing", "done">>}

CallOrder ==
    {<<"none", "createGitHubRepo">>, <<"createGitHubRepo", "addRemote">>,
     <<"addRemote", "push">>}

\* C24: handlePublish issues createGitHubRepo, addRemote, push in this
\* order, each after the call before it resolved; step moves along form,
\* creating, adding-remote, pushing, done (the opening of the dialog puts it
\* back to form), goes to error exactly when a call rejects, after which no
\* call is in flight, and loading is false in done and in error.
C24_PublishStepsInOrder ==
    [][/\ (pCall' # pCall /\ pCall' # "none") => <<pCall, pCall'>> \in CallOrder
       /\ (step' # step /\ step' \notin {"form", "error"})
              => <<step, step'>> \in StepOrder
       /\ (step' = "error" /\ step # "error")
              => (pCall # "none" /\ pCall' = "none")
       /\ (pCall # "none" /\ pCall' = "none" /\ step' # "done")
              => step' = "error"
       /\ step' \in {"done", "error"} => (~pLoading' /\ pCall' = "none")]_vars

(***************************************************************************)
(* useLocalReposStore: the list of local repositories and the selection.   *)
(* An entry is [id, path] (name and addedAt are carried along unread);     *)
(* crypto.randomUUID() gives an id it has not given before, here the next  *)
(* number; null is 0.                                                      *)
(***************************************************************************)
MaxUuid == 4
MaxRepos == 3

Folders == {"dirA", "dirB", "dirC"}

NullId == 0

NoEntry == [id |-> NullId, path |-> ""]

RECURSIVE FindFrom(_, _, _)
FindFrom(rs, path, i) ==
    IF i > Len(rs) THEN NoEntry
    ELSE IF rs[i].path = path THEN rs[i]
    ELSE FindFrom(rs, path, i + 1)

\* Variant: the lookup finds nothing
FindByPath_Nothing(rs, path) == NoEntry

\* repos.find((r) => r.path === path): the first entry with the path
FindByPath(rs, path) == FindFrom(rs, path, 1)

\* Variant: removeRepo leaves selectedRepoId alone
SelectedAfterRemove_Kept(selected, id) == selected

\* state.selectedRepoId === id ? null : state.selectedRepoId
SelectedAfterRemove(selected, id) == IF selected = id THEN NullId ELSE selected

\* repos.filter((r) => r.id !== id)
WithoutId(rs, id) ==
    LET Other(r) == r.id # id
    IN  SelectSeq(rs, Other)

IdsOf(rs) == {rs[i].id : i \in 1..Len(rs)}

addRepo(path) ==
    /\ LET existing == FindByPath(repos, path)
       IN  IF existing # NoEntry
           THEN /\ selectedRepoId' = existing.id
                /\ UNCHANGED <<repos, nextUuid>>
           ELSE /\ nextUuid < MaxUuid
                /\ Len(repos) < MaxRepos
                /\ nextUuid' = nextUuid + 1
                /\ repos' = Append(repos, [id |-> nextUuid + 1, path |-> path])
                /\ selectedRepoId' = nextUuid + 1
    /\ StoreFrame

removeRepo(id) ==
    /\ repos' = WithoutId(repos, id)
    /\ selectedRepoId' = SelectedAfterRemove(selectedRepoId, id)
    /\ UNCHANGED nextUuid
    /\ StoreFrame

\* selectRepo(id) with null or the id of a listed repository
selectRepo(id) ==
    /\ selectedRepoId' = id
    /\ UNCHANGED <<repos, nextUuid>>
    /\ StoreFrame

\* the store as created: repos: [], selectedRepoId: null
InitStore ==
    /\ srcLines = <<>>
    /\ diffText = <<>>
    /\ files = <<>>
    /\ stats = <<>>
    /\ fileViewStats = [added |-> 0, removed |-> 0]
    /\ dphase = "off"
    /\ commitList = <<>>
    /\ lanes = <<>>
    /\ nextColor = 0
    /\ row = 0
    /\ columns = <<>>
    /\ colors = <<>>
    /\ bphase = "off"
    /\ refList = <<>>
    /\ otherList = <<>>
    /\ buildNo = 0
    /\ buildsLeft = 0
    /\ firstResult = <<>>
    /\ gRepoPath = NoRepo
    /\ gCommits = "none"
    /\ gLoading = FALSE
    /\ gError = FALSE
    /\ graphReqs = [p \in Repos |-> 0]
    /\ selectedCommit = NoCommit
    /\ commitDiff = EmptyDiff
    /\ diffLoading = FALSE
    /\ diffReqs = [k \in Repos \X Commits |-> 0]
    /\ ops = {}
    /\ gToast = "none"
    /\ selectedRepo = NoRepo
    /\ repoInfo = NoRepo
    /\ loading = FALSE
    /\ infoReqs = [p \in Repos |-> 0]
    /\ listeners = <<>>
    /\ sinceLast = DebounceMs
    /\ burstOpen = FALSE
    /\ burstFetches = 0
    /\ numLines = <<>>
    /\ numbers = <<>>
    /\ nphase = "off"
    /\ rCommits = <<>>
    /\ connectors = <<>>
    /\ nodes = <<>>
    /\ rphase = "off"
    /\ gSettled = "none"
    /\ actionLoading = "none"
    /\ actionRepo = "none"
    /\ aToast = "none"
    /\ aSettled = "none"
    /\ message = ""
    /\ selectedPrefix = "none"
    /\ viewCommit = NoCommit
    /\ viewBefore = <<>>
    /\ initLoading = FALSE
    /\ initClosure = "none"
    /\ initFolder = "none"
    /\ initTimer = 0 - 1
    /\ initRefreshed = FALSE
    /\ checkoutRepo = "none"
    /\ initDialogs = 0
    /\ initCalls = [p \in Repos |-> 0]
    /\ pOpen = FALSE
    /\ pToken = FALSE
    /\ pLoading = FALSE
    /\ step = "form"
    /\ hasOrigin = FALSE
    /\ tokenReqs = 0
    /\ remoteReqs = 0
    /\ repoOrigin = FALSE
    /\ pubHasOrigin = FALSE
    /\ pCall = "none"
    /\ remoteName = "none"
    /\ repos = <<>>
    /\ selectedRepoId = 0
    /\ nextUuid = 0

NextStore ==
    \/ \E path \in Folders : addRepo(path)
    \/ \E id \in 1..MaxUuid : removeRepo(id)
    \/ \E id \in IdsOf(repos) \cup {NullId} : selectRepo(id)

SpecStore == InitStore /\ [][NextStore]_vars

SelectedIsListed == selectedRepoId = NullId \/ selectedRepoId \in IdsOf(repos)

\* C25: after any sequence of addRepo, removeRepo and selectRepo calls
\* (selectRepo with null or a listed id) selectedRepoId is null or the id of a
\* listed repository; removeRepo of the selected repository sets it to null,
\* removeRepo of another one leaves it unchanged, and addRepo leaves the
\* repository with the given path selected.
C25_SelectionIsListedOrNull ==
    /\ []SelectedIsListed
    /\ [][/\ \A id \in 1..MaxUuid :
                removeRepo(id) =>
                    selectedRepoId' =
                        (IF id = selectedRepoId THEN NullId ELSE selectedRepoId)
          /\ \A path \in Folders :
                addRepo(path) =>
                    \E i \in 1..Len(repos') :
                        /\ repos'[i].path = path
                        /\ repos'[i].id = selectedRepoId']_vars

\* two repositories were added and the selected one was removed
C25_Witness ==
    /\ nextUuid = 2
    /\ Len(repos) = 1
    /\ selectedRepoId = NullId

NoTwoAlike ==
    \A i, j \in 1..Len(repos) :
        i # j => (repos[i].path # repos[j].path /\ repos[i].id # repos[j].id)

\* C26: after any sequence of addRepo and removeRepo calls no two listed
\* repositories have the same path and no two have the same id; addRepo with
\* a listed path adds nothing and selects the listed entry.
C26_NoDuplicateRepos ==
    /\ []NoTwoAlike
    /\ [][\A path \in Folders :
            (addRepo(path) /\ \E i \in 1..Len(repos) : repos[i].path = path)
               => /\ repos' = repos
                  /\ \E i \in 1..Len(repos) :
                        /\ repos[i].path = path
                        /\ selectedRepoId' = repos[i].id]_vars

\* both folders are listed and addRepo of the first selected it again
C26_Witness ==
    /\ Len(repos) = 2
    /\ nextUuid = 2
    /\ selectedRepoId = repos[1].id

====
